---- MODULE Spec2Model ----
(***************************************************************************)
(* GarageGuardian control core: the thermostat controller with its state   *)
(* manager and heater relay, the safety monitor, and the settings/timer    *)
(* persistence of the two SimpleLogger implementations.                    *)
(*                                                                         *)
(* Units: one tick of `now` stands for 90 s of time.time(); one degree of  *)
(* the model stands for 10 F.                                              *)
(***************************************************************************)
EXTENDS Integers, Sequences, FiniteSets, TLC

\* ------------------------------------------------------------------ bounds
MaxTime == 6

\* -------------------------------------------------------- program constants
\* SystemConfig.TEMP_SETTINGS['CYCLE_DELAY'] (class-level default, 180 s),
\* the value HeaterRelay.activate compares against, in ticks of 90 s.
RelayCycleDelay == 2

\* A missing reading (Python None) is the empty tuple, a reading t is <<t>>.
None == <<>>
val(x) == x[1]

\* Values carried by temperature_current and temp_setting_changed events.
Temps          == {5, 6, 8}
SetpointVals   == {6, 7}
DiffVals       == {1, 2}
CycleDelayVals == {0, 1, 3}
MinRunVals     == {0, 2}
ModeVals       == {"heat", "off"}

Settings == {"SETPOINT", "CYCLE_DELAY", "MIN_RUN_TIME", "TEMP_DIFFERENTIAL",
             "HEATER_MODE"}

\* BaseController.enabled: nothing in the modelled operations clears it
controller_enabled == TRUE

STATE_IDLE        == "idle"
STATE_HEATING     == "heating"
STATE_CYCLE_DELAY == "cycle_delay"
STATE_MIN_RUN     == "min_run"
STATE_DISABLED    == "disabled"

VARIABLES
    now,                \* time.time()
    \* ---- HeaterRelay
    relay_active,       \* bool(self._pin.value())
    relay_last_change,  \* HeaterRelay._last_change
    \* ---- ThermostatController
    setpoint, cycle_delay, min_run_time, temp_differential, heater_mode,
    last_off_time, last_on_time, current_temp,
    \* ---- ThermostatStateManager
    fsm_state, cycle_delay_start,
    \* ---- observation: what the last operation's evaluation did
    outcome

VARIABLES
    \* ---- SafetyMonitor
    conditions,         \* name -> SafetyCondition record, or NoCond
    emergency_stops,    \* registered stop functions, in registration order
    active, status,
    \* ---- observation of the safety monitor
    within_interval,    \* less than check_interval has passed since the
                        \* last check_safety that evaluated the conditions
    violation_events,   \* safety_violation events published by the monitor
    stop_log,           \* stop functions invoked by the last emergency_stop()
    stop_raised,        \* those of them that raised
    last_call           \* "True"/"False": the last call was check_safety and
                        \* returned that; "estop": it was emergency_stop();
                        \* "none": anything else

VARIABLES
    \* ---- the SD card and the two SimpleLogger.save_state implementations
    files,              \* file name -> content
    fl_pc, fl_data, fl_ret,     \* file_logger.save_state: position, argument,
                                \* return value ("none" while running)
    cb_pc, cb_data, cb_ret,     \* cowbell_logger.save_state, likewise
    loaded,             \* result of the last load_state call
    \* ---- observation of the persistence
    fl_before,          \* content of the target when file_logger.save_state began
    fl_failed_at,       \* the step of file_logger.save_state that failed
    s_prior, s_new,     \* settings file: value before the last save, value saved
    t_prior, t_new      \* timer file: likewise

VARIABLES
    \* ---- EventSystem
    sync_subscribers,   \* event type -> handlers, in subscription order
    async_subscribers,  \* event type -> handlers subscribed with is_async
    priority_handlers,  \* event type -> handlers subscribed with priority
    history,            \* the event types published, oldest first
    stats,              \* events_processed, events_dropped, handler_errors
    ev_pc,              \* "idle", or "gather" while publish awaits gather
    ev_type,            \* the event type of the running or last publish
    ev_suspended,       \* gathered coroutines waiting to be resumed
    ev_raisers,         \* the suspended coroutines that will raise
    \* ---- observation of the event system
    ev_log,             \* what the handlers did during the last publish
    ev_ret,             \* "returned" once the last publish has returned
    sub_ret,            \* return value of the last subscribe call
    reg_order,          \* event type -> handlers in order of registration
    stats_before        \* the statistics when the last publish began

VARIABLES
    \* ---- SystemController timed heat
    up,                 \* the process is running (initialize has returned)
    cwd_is_sd,          \* os.getcwd() = '/sd': where a relative name resolves
    timer_end_time,     \* SystemController.timer_end_time (NoTime for None)
    timer_json,         \* the saved timer.json: exists, timer_end
    tasks,              \* the running _check_timer tasks
    n_tasks,            \* _check_timer tasks created so far
    published           \* timer events published: <<type, time, task>>

VARIABLES
    \* ---- SettingsManager and SystemConfig
    cfg,                \* SystemConfig.TEMP_SETTINGS, the entries of settings
    sfiles,             \* setting -> content of its thermostat_<key>.json
    th_up,              \* a ThermostatController is constructed and subscribed
    \* ---- observation of the settings
    last_change,        \* <<setting, value>> of the last temp_setting_changed
    last_valid,         \* setting -> <<v>>, the last valid value published
    sm_ret,             \* what _handle_temp_setting_change returned
    restored            \* events published by the last restore_all_settings

VARIABLES
    \* ---- observation of SystemController's temperature loop
    sensor_failed,      \* the last bmp390.get_fahrenheit() returned None
    error_events,       \* error events published for failed sensor reads
    \* ---- observation of the thermostat on the event system
    last_published,     \* <<setting, value>> of the last temp_setting_changed
                        \* published through EventSystem.publish
    op_ret,             \* what enable_heater / disable_heater returned
    system_state,       \* SystemController.state
    monitoring          \* SystemController._monitoring

VARIABLES
    \* ---- the asyncio tasks that evaluate the thermostat
    pending,            \* per task: the FSM state its suspended evaluation
                        \* will request when it resumes, or "none"
    last_heater_event   \* the heater event EventSystem.publish appended to
                        \* the history last, or "none"

VARIABLES
    \* ---- IoTController.initialize_system
    iot_state,              \* IoTController.state
    initialization_retry,   \* IoTController.initialization_retry
    error_log,              \* what the failed attempts appended, oldest first
    init_pc,                \* "idle", "attempt", "sleep" or "returned"
    \* ---- observation of initialize_system
    init_ret,               \* what the outermost call returned
    call_attempts,          \* attempts made by the running or last call
    n_calls                 \* calls of initialize_system so far

thVars == <<now, relay_active, relay_last_change, setpoint, cycle_delay,
            min_run_time, temp_differential, heater_mode, last_off_time,
            last_on_time, current_temp, fsm_state, cycle_delay_start,
            outcome>>

safetyVars == <<conditions, emergency_stops, active, status, stop_log,
                stop_raised, last_call, within_interval, violation_events>>

storeVars == <<files, fl_pc, fl_data, fl_ret, cb_pc, cb_data, cb_ret, loaded,
               fl_before, fl_failed_at, s_prior, s_new, t_prior, t_new>>

evVars == <<sync_subscribers, async_subscribers, priority_handlers, history,
            stats, ev_pc, ev_type, ev_suspended, ev_raisers, ev_log, ev_ret,
            sub_ret, reg_order, stats_before>>

timerVars == <<up, cwd_is_sd, timer_end_time, timer_json, tasks, n_tasks,
               published>>

settingsVars == <<cfg, sfiles, th_up, last_change, last_valid, sm_ret,
                  restored>>

sysVars == <<sensor_failed, error_events, last_published, op_ret,
             system_state, monitoring>>

iotVars == <<iot_state, initialization_retry, error_log, init_pc, init_ret,
             call_attempts, n_calls>>

taskVars == <<pending, last_heater_event>>

vars == <<thVars, safetyVars, storeVars, evVars, timerVars, settingsVars,
          sysVars, iotVars, taskVars>>

\* what the operations of one component leave alone
notThermo == <<safetyVars, storeVars, evVars, timerVars, settingsVars,
              sysVars, iotVars, taskVars>>
notSafety == <<thVars, storeVars, evVars, timerVars, settingsVars,
              sysVars, iotVars, taskVars>>
notStore  == <<thVars, safetyVars, evVars, timerVars, settingsVars,
              sysVars, iotVars, taskVars>>
notEvents == <<thVars, safetyVars, storeVars, timerVars, settingsVars,
              sysVars, iotVars, taskVars>>
notTimer  == <<safetyVars, storeVars, evVars, settingsVars,
              sysVars, iotVars, taskVars>>
notSettings == <<safetyVars, storeVars, evVars, sysVars, iotVars, taskVars>>
notSys    == <<safetyVars, storeVars, evVars, timerVars, settingsVars,
              iotVars, taskVars>>
notIoT    == <<thVars, safetyVars, storeVars, evVars, timerVars,
              settingsVars, sysVars, taskVars>>
notTasks  == <<safetyVars, storeVars, evVars, timerVars, settingsVars,
              sysVars, iotVars>>

\* The thermostat, its state manager and its relay as one record, so that
\* the sequential code of a handler composes as function application.
ThState ==
    [ relay_active |-> relay_active, relay_last_change |-> relay_last_change,
      setpoint |-> setpoint, cycle_delay |-> cycle_delay,
      min_run_time |-> min_run_time, temp_differential |-> temp_differential,
      heater_mode |-> heater_mode, last_off_time |-> last_off_time,
      last_on_time |-> last_on_time, current_temp |-> current_temp,
      fsm_state |-> fsm_state, cycle_delay_start |-> cycle_delay_start,
      outcome |-> "none" ]

\* ThermostatStateManager.can_transition
can_transition(s, new_state) ==
    IF new_state = STATE_HEATING /\ s.fsm_state = STATE_CYCLE_DELAY
    THEN now - s.cycle_delay_start >= s.cycle_delay
    ELSE TRUE

\* mutant of transition: entering CycleDelay restarts the controller's own
\* cycle delay as well
transition_restamps(s, new_state) ==
    IF new_state = s.fsm_state THEN s
    ELSE IF ~can_transition(s, new_state) THEN s
    ELSE [s EXCEPT !.fsm_state = new_state,
                   !.cycle_delay_start =
                       IF new_state = STATE_CYCLE_DELAY THEN now ELSE @,
                   !.last_off_time =
                       IF new_state = STATE_CYCLE_DELAY THEN now ELSE @]

\* ThermostatStateManager.transition
transition(s, new_state) ==
    IF new_state = s.fsm_state THEN s
    ELSE IF ~can_transition(s, new_state) THEN s
    ELSE [s EXCEPT !.fsm_state = new_state,
                   !.cycle_delay_start =
                       IF new_state = STATE_CYCLE_DELAY THEN now ELSE @]

\* HeaterRelay.activate raises ValueError when the relay is inactive and its
\* own cycle delay (the class-level default) has not passed.
activate_raises(s) ==
    ~s.relay_active /\ now - s.relay_last_change < RelayCycleDelay

\* mutant of turn_on: the activation is recorded and announced although
\* the relay did not switch
turn_on_unchecked(s) ==
    [s EXCEPT !.last_on_time = now, !.outcome = "on"]

\* mutant of turn_on: the activation time is not recorded
turn_on_stale(s) ==
    [s EXCEPT !.relay_active = TRUE, !.relay_last_change = now,
              !.outcome = "on"]

\* ThermostatController._turn_on, when HeaterRelay.activate does not raise
turn_on(s) ==
    [s EXCEPT !.relay_active = TRUE, !.relay_last_change = now,
              !.last_on_time = now, !.outcome = "on"]

\* mutant of turn_off: the deactivation is recorded and announced although
\* the relay did not switch
turn_off_unswitched(s) ==
    [s EXCEPT !.last_off_time = now, !.outcome = "off"]

\* mutant of turn_off: the deactivation time is not recorded
turn_off_stale(s) ==
    [s EXCEPT !.relay_active = FALSE, !.relay_last_change = now,
              !.outcome = "off"]

\* ThermostatController._turn_off (HeaterRelay.deactivate never raises)
turn_off(s) ==
    [s EXCEPT !.relay_active = FALSE, !.relay_last_change = now,
              !.last_off_time = now, !.outcome = "off"]

\* all([setpoint, cycle_delay, min_run_time, temp_differential])
all_settings(s) ==
    s.setpoint # 0 /\ s.cycle_delay # 0 /\ s.min_run_time # 0
        /\ s.temp_differential # 0

\* mutant of heater_enabled: the mode is ignored
heater_enabled_always(s) == TRUE

\* ThermostatController.heater_enabled
heater_enabled(s) == s.heater_mode = "heat"

\* mutant of check_thermostat: a missing reading does not disable the
\* heater and counts as a cold room
check_thermostat_blind(s) ==
    IF ~all_settings(s) THEN [s EXCEPT !.outcome = "skip"]
    ELSE IF s.relay_active /\ now - s.last_on_time < s.min_run_time
    THEN [transition(s, STATE_MIN_RUN) EXCEPT !.outcome = "hold_min_run"]
    ELSE IF ~heater_enabled(s)
    THEN IF s.relay_active /\ now - s.last_on_time >= s.min_run_time
         THEN transition(turn_off(s), STATE_DISABLED)
         ELSE [transition(s, STATE_DISABLED) EXCEPT !.outcome = "disabled"]
    ELSE IF s.relay_active
    THEN IF s.current_temp # None
            /\ val(s.current_temp) >= s.setpoint + s.temp_differential
            /\ now - s.last_on_time >= s.min_run_time
         THEN transition(turn_off(s), STATE_IDLE)
         ELSE [s EXCEPT !.outcome = "keep"]
    ELSE IF now - s.last_off_time < s.cycle_delay
    THEN [transition(s, STATE_CYCLE_DELAY) EXCEPT !.outcome = "hold_cycle"]
    ELSE IF s.current_temp = None
            \/ val(s.current_temp) <= s.setpoint - s.temp_differential
    THEN IF activate_raises(s)
         THEN [s EXCEPT !.outcome = "refused"]
         ELSE transition(turn_on(s), STATE_HEATING)
    ELSE [transition(s, STATE_IDLE) EXCEPT !.outcome = "idle"]

\* ThermostatController._check_thermostat
check_thermostat(s) ==
    IF ~all_settings(s) THEN [s EXCEPT !.outcome = "skip"]
    ELSE IF s.relay_active /\ now - s.last_on_time < s.min_run_time
    THEN [transition(s, STATE_MIN_RUN) EXCEPT !.outcome = "hold_min_run"]
    ELSE IF ~heater_enabled(s) \/ s.current_temp = None
    THEN IF s.relay_active /\ now - s.last_on_time >= s.min_run_time
         THEN transition(turn_off(s), STATE_DISABLED)
         ELSE [transition(s, STATE_DISABLED) EXCEPT !.outcome = "disabled"]
    ELSE IF s.relay_active
    THEN IF val(s.current_temp) >= s.setpoint + s.temp_differential
            /\ now - s.last_on_time >= s.min_run_time
         THEN transition(turn_off(s), STATE_IDLE)
         ELSE [s EXCEPT !.outcome = "keep"]
    ELSE IF now - s.last_off_time < s.cycle_delay
    THEN [transition(s, STATE_CYCLE_DELAY) EXCEPT !.outcome = "hold_cycle"]
    ELSE IF val(s.current_temp) <= s.setpoint - s.temp_differential
    THEN IF activate_raises(s)
         \* the except clause finds the relay inactive and re-raises
         THEN [s EXCEPT !.outcome = "refused"]
         ELSE transition(turn_on(s), STATE_HEATING)
    ELSE [transition(s, STATE_IDLE) EXCEPT !.outcome = "idle"]

\* the body of ThermostatController._handle_setting_change before the
\* evaluation
apply_setting(s, setting, value) ==
    CASE setting = "HEATER_MODE" ->
            transition([s EXCEPT !.heater_mode = value],
                       IF value = "off" THEN STATE_DISABLED ELSE STATE_IDLE)
      [] setting = "SETPOINT"          -> [s EXCEPT !.setpoint = value]
      [] setting = "CYCLE_DELAY"       -> [s EXCEPT !.cycle_delay = value]
      [] setting = "MIN_RUN_TIME"      -> [s EXCEPT !.min_run_time = value]
      [] setting = "TEMP_DIFFERENTIAL" -> [s EXCEPT !.temp_differential = value]
      [] OTHER -> s

\* write a record back to the variables
SetThVars(s) ==
    /\ relay_active' = s.relay_active
    /\ relay_last_change' = s.relay_last_change
    /\ setpoint' = s.setpoint
    /\ cycle_delay' = s.cycle_delay
    /\ min_run_time' = s.min_run_time
    /\ temp_differential' = s.temp_differential
    /\ heater_mode' = s.heater_mode
    /\ last_off_time' = s.last_off_time
    /\ last_on_time' = s.last_on_time
    /\ current_temp' = s.current_temp
    /\ fsm_state' = s.fsm_state
    /\ cycle_delay_start' = s.cycle_delay_start
    /\ outcome' = s.outcome
    /\ now' = now

\* an operation of the thermostat alone
SetTh(s) ==
    /\ SetThVars(s)
    /\ UNCHANGED notThermo

\* the values a temp_setting_changed event carries for a setting
SettingVals(setting) ==
    CASE setting = "SETPOINT"          -> SetpointVals
      [] setting = "CYCLE_DELAY"       -> CycleDelayVals
      [] setting = "MIN_RUN_TIME"      -> MinRunVals
      [] setting = "TEMP_DIFFERENTIAL" -> DiffVals
      [] setting = "HEATER_MODE"       -> ModeVals

\* what the callers of _check_thermostat hand it in the current state:
\* monitor() the state as it is, _handle_temperature the new reading,
\* _handle_setting_change the new setting
EvaluationInputs ==
    {ThState}
        \cup {[ThState EXCEPT !.current_temp = <<t>>] : t \in Temps}
        \cup UNION {{apply_setting(ThState, st, v) : v \in SettingVals(st)} :
                      st \in Settings}

\* the two holds of _check_thermostat: the relay is active inside the
\* minimum run time, or inactive inside the cycle delay
HoldCase(s) ==
    \/ s.relay_active /\ now - s.last_on_time < s.min_run_time
    \/ ~s.relay_active /\ now - s.last_off_time < s.cycle_delay

\* ThermostatController._handle_setting_change
HandleSettingChange(setting, value) ==
    /\ setting \in Settings
    /\ SetTh(check_thermostat(apply_setting(ThState, setting, value)))

\* ThermostatController._handle_temperature; a payload without a reading
\* returns before anything is stored.
HandleTemperature(temp) ==
    IF temp = None
    THEN SetTh(ThState)
    ELSE SetTh(check_thermostat([ThState EXCEPT !.current_temp = temp]))

\* ThermostatController.enable_heater
EnableHeater ==
    IF current_temp = None
    THEN SetTh(ThState)
    ELSE SetTh(check_thermostat(apply_setting(ThState, "HEATER_MODE", "heat")))

\* ThermostatController.disable_heater
DisableHeater ==
    /\ TRUE    \* no guard: the publish is unconditional
    /\ SetTh(check_thermostat(apply_setting(ThState, "HEATER_MODE", "off")))

\* ThermostatController.monitor (BaseController.enabled stays True)
Monitor ==
    /\ controller_enabled
    /\ SetTh(check_thermostat(ThState))

\* ThermostatController.reset_cycle_delay
ResetCycleDelay ==
    /\ TRUE    \* no guard
    /\ SetTh([ThState EXCEPT !.last_off_time = now])

\* time.time() advances
Tick ==
    /\ now < MaxTime
    /\ now' = now + 1
    /\ outcome' = "none"
    /\ UNCHANGED <<relay_active, relay_last_change, setpoint, cycle_delay,
                   min_run_time, temp_differential, heater_mode,
                   last_off_time, last_on_time, current_temp, fsm_state,
                   cycle_delay_start>>
    /\ UNCHANGED notThermo

\* ThermostatController.__init__ followed by initialize(): settings come from
\* the configuration (any restored valid value), the relay is deactivated.
InitThermo ==
    /\ now = 0
    /\ relay_active = FALSE
    /\ relay_last_change = 0
    /\ setpoint \in SetpointVals
    /\ cycle_delay \in CycleDelayVals
    /\ min_run_time \in MinRunVals
    /\ temp_differential \in DiffVals
    /\ heater_mode = "off"
    /\ last_off_time = 0
    /\ last_on_time = 0
    /\ current_temp = None
    /\ fsm_state = STATE_IDLE
    /\ cycle_delay_start = 0
    /\ outcome = "none"

NextThermo ==
    \/ Monitor
    \/ EnableHeater
    \/ DisableHeater
    \/ ResetCycleDelay
    \/ Tick
    \/ \E t \in {<<x>> : x \in Temps} \cup {None} : HandleTemperature(t)
    \/ \E v \in SetpointVals : HandleSettingChange("SETPOINT", v)
    \/ \E v \in CycleDelayVals : HandleSettingChange("CYCLE_DELAY", v)
    \/ \E v \in MinRunVals : HandleSettingChange("MIN_RUN_TIME", v)
    \/ \E v \in DiffVals : HandleSettingChange("TEMP_DIFFERENTIAL", v)
    \/ \E v \in ModeVals : HandleSettingChange("HEATER_MODE", v)


\* ========================================================= SafetyMonitor

\* ------------------------------------------------------------------ bounds
MaxViolations == 3      \* violation_count is not counted beyond this
MaxStops      == 2      \* registered emergency-stop functions

\* -------------------------------------------------------- program constants
MAX_CONDITIONS == 20
LOW      == 0
MEDIUM   == 1
HIGH     == 2
CRITICAL == 3

NORMAL    == "normal"
VIOLATION == "violation"
FAILURE   == "failure"

CondNames  == {"c1", "c2"}
StopFuncs  == {"s1", "s2"}
Severities == {LOW, MEDIUM, HIGH, CRITICAL}
\* The conditions the subsystems register: c1 with threshold 3 and a
\* recovery action, c2 with the default threshold 1 and none.
CondThreshold(name)   == IF name = "c1" THEN 3 ELSE 1
CondHasRecovery(name) == name = "c1"
\* what one call of condition.check() does
CheckResults == {"safe", "unsafe", "raise"}

NoCond == [registered |-> FALSE]

\* SafetyCondition.__init__ plus the recovery_action set by add_condition.
\* `did` observes what the last check_safety did with the condition and
\* `stops` how many emergency stops the condition has triggered.
SafetyCondition(severity, threshold, recovery) ==
    [ registered |-> TRUE, severity |-> severity, threshold |-> threshold,
      status |-> NORMAL,
      violation_count |-> 0, recovery_action |-> recovery,
      did |-> "notrun", stops |-> 0 ]

Registered == {c \in CondNames : conditions[c].registered}

\* SafetyMonitor.__init__
InitSafety ==
    /\ conditions = [c \in CondNames |-> NoCond]
    /\ emergency_stops = <<>>
    /\ active = TRUE
    /\ status = NORMAL
    /\ stop_log = <<>>
    /\ stop_raised = {}
    /\ last_call = "none"
    /\ within_interval = FALSE
    /\ violation_events = {}

\* SafetyMonitor.register_emergency_stop
RegisterEmergencyStop(f) ==
    /\ Len(emergency_stops) < MaxStops
    /\ emergency_stops' = Append(emergency_stops, f)
    /\ last_call' = "none"
    /\ UNCHANGED <<conditions, active, status, stop_log, stop_raised,
                   within_interval, violation_events>>
    /\ UNCHANGED notSafety

\* SafetyMonitor.add_condition
AddCondition(name, severity, threshold, recovery) ==
    /\ Cardinality(Registered) < MAX_CONDITIONS
    /\ conditions' = [conditions EXCEPT
                         ![name] = SafetyCondition(severity, threshold, recovery)]
    /\ last_call' = "none"
    /\ UNCHANGED <<emergency_stops, active, status, stop_log, stop_raised,
                   within_interval, violation_events>>
    /\ UNCHANGED notSafety

\* mutant of stops_invoked: the first stop function that raises ends the loop
stops_invoked_abort(stops, raisers) ==
    LET bad == {i \in 1..Len(stops) : stops[i] \in raisers} IN
    IF bad = {} THEN stops
    ELSE SubSeq(stops, 1, CHOOSE i \in bad : \A j \in bad : i <= j)

\* the loop of SafetyMonitor.emergency_stop: the stop functions it invokes,
\* in order, when those in `raisers` raise
stops_invoked(stops, raisers) == stops

\* SafetyMonitor.emergency_stop, called directly
EmergencyStop(raisers) ==
    /\ raisers \subseteq {emergency_stops[i] : i \in 1..Len(emergency_stops)}
    /\ status' = FAILURE
    /\ active' = FALSE
    /\ stop_log' = stops_invoked(emergency_stops, raisers)
    /\ stop_raised' = raisers \cap {stop_log'[i] : i \in 1..Len(stop_log')}
    /\ last_call' = "estop"
    /\ UNCHANGED <<conditions, emergency_stops, within_interval,
                   violation_events>>
    /\ UNCHANGED notSafety

\* mutant of escalates: only Critical conditions stop the system
escalates_critical_only(cond) == cond.severity >= CRITICAL

\* condition.severity >= SafetySeverity.HIGH in _handle_violation
escalates(cond) == cond.severity >= HIGH

\* the events SafetyMonitor._handle_violation publishes on
\* self.event_system for the condition: it appends to violation_history
\* and never touches the event system
violation_published(name, cond) == {}

\* SafetyMonitor._handle_violation: what it does for the condition
handle_violation(cond) ==
    IF escalates(cond) THEN "estop"
    ELSE IF cond.recovery_action THEN "recovery"
    ELSE "handled"

\* mutant of reached: off by one
reached_late(cond) == cond.violation_count > cond.threshold

\* condition.violation_count >= condition.threshold in check_safety
reached(cond) == cond.violation_count >= cond.threshold

\* the body of the loop of check_safety for one condition whose check()
\* gives result r.  The except branch logs and clears all_safe; no branch
\* assigns condition.status.
check_one(cond, r) ==
    CASE r = "raise"  -> [cond EXCEPT !.did = "raise"]
      [] r = "safe"   -> [cond EXCEPT !.violation_count = 0, !.did = "safe"]
      [] r = "unsafe" ->
            LET c1 == [cond EXCEPT !.violation_count = @ + 1] IN
            IF reached(c1)
            THEN LET h == handle_violation(c1) IN
                 [c1 EXCEPT !.did = h,
                            !.stops = IF h = "estop" THEN @ + 1 ELSE @]
            ELSE [c1 EXCEPT !.did = "counted"]

\* mutant of check_blocked: the monitor checks although it is off
check_blocked_never == FALSE

\* `if not self.active: return False` at the head of check_safety
check_blocked == ~active

\* SafetyMonitor.check_safety; results gives what each check() does.  The
\* call reads neither the clock nor self.last_check and self.check_interval.  The
\* conditions are independent of one another, and an emergency stop in the
\* middle of the loop does not end the loop.
CheckSafety(results, raisers) ==
    /\ UNCHANGED notSafety
    /\ IF check_blocked
       THEN /\ last_call' = "False"
            /\ conditions' = [c \in CondNames |->
                                 IF conditions[c].registered
                                 THEN [conditions[c] EXCEPT !.did = "notrun"]
                                 ELSE conditions[c]]
            /\ raisers = {}
            /\ UNCHANGED <<emergency_stops, active, status, stop_log,
                           stop_raised, within_interval, violation_events>>
       ELSE LET new == [c \in CondNames |->
                           IF conditions[c].registered
                           THEN check_one(conditions[c], results[c])
                           ELSE conditions[c]]
                stoppers == {c \in Registered : new[c].did = "estop"}
            IN  /\ \A c \in Registered :
                       results[c] = "unsafe"
                           => conditions[c].violation_count < MaxViolations
                /\ raisers \subseteq
                       IF stoppers = {} THEN {}
                       ELSE {emergency_stops[i] : i \in 1..Len(emergency_stops)}
                /\ conditions' = new
                /\ within_interval' = TRUE
                /\ violation_events' = violation_events \cup
                       UNION {violation_published(c, new[c]) :
                                 c \in {d \in Registered :
                                            new[d].did \in {"estop", "recovery",
                                                            "handled"}}}
                /\ last_call' = IF \A c \in Registered : results[c] = "safe"
                                THEN "True" ELSE "False"
                /\ IF stoppers # {}
                   THEN /\ status' = FAILURE
                        /\ active' = FALSE
                        /\ stop_log' = stops_invoked(emergency_stops, raisers)
                        /\ stop_raised' =
                               raisers \cap {stop_log'[i] : i \in 1..Len(stop_log')}
                   ELSE UNCHANGED <<status, active, stop_log, stop_raised>>
                /\ UNCHANGED emergency_stops

\* check_interval passes without a check_safety
IntervalElapses ==
    /\ within_interval
    /\ within_interval' = FALSE
    /\ last_call' = "none"
    /\ UNCHANGED <<conditions, emergency_stops, active, status, stop_log,
                   stop_raised, violation_events>>
    /\ UNCHANGED notSafety

NextSafety ==
    \/ \E f \in StopFuncs : RegisterEmergencyStop(f)
    \/ \E n \in CondNames, sv \in Severities :
           AddCondition(n, sv, CondThreshold(n), CondHasRecovery(n))
    \/ \E rs \in SUBSET StopFuncs : EmergencyStop(rs)
    \/ \E res \in [CondNames -> CheckResults], rs \in SUBSET StopFuncs :
           CheckSafety(res, rs)

\* the monitor's conditions checked at any pace, with no stop function
\* registered
NextThrottle ==
    \/ \E n \in CondNames, sv \in Severities :
           AddCondition(n, sv, CondThreshold(n), CondHasRecovery(n))
    \/ \E res \in [CondNames -> CheckResults] : CheckSafety(res, {})
    \/ IntervalElapses



\* ===================================== settings and timer persistence

\* The settings files are written by gg.logging.file_logger.SimpleLogger
\* (main.py hands it to SettingsManager), timer.json by
\* gg.logging.cowbell_logger.SimpleLogger (SystemController.logger).
SettingFile == "thermostat_setpoint.json"
TimerFile   == "timer.json"

\* mutant of temp_name: the data is written straight to the target
temp_name_target(f) == f

\* temp_filename = f"{filename}.tmp" in file_logger.save_state
temp_name(f) == f \o ".tmp"

FileNames == {SettingFile, temp_name(SettingFile), TimerFile}

\* File contents: no file, a file of size 0, a file cut off in the middle of
\* the JSON text, or a complete JSON text.
ABSENT  == "absent"
EMPTY   == "empty"
PARTIAL == "partial"

\* The data passed to save_state: two dicts of JSON types and a dict holding
\* a tuple, which JSON writes as an array and reads back as a list.
Data      == {"v1", "v2", "tup"}
TimerData == {"v1", "v2"}
NoData    == "none"     \* Python None

\* json.dump: the text written for the data
json_dump(d) == IF d = "tup" THEN "lst" ELSE d
\* json.load of a file content; NoData stands for the ValueError of a text
\* that is not complete JSON
json_load(c) == IF c \in {ABSENT, EMPTY, PARTIAL} THEN NoData ELSE c

\* file_logger.SimpleLogger.load_state: None for a missing or empty file and
\* for one that does not parse
load_state(c) ==
    IF c = ABSENT THEN NoData
    ELSE IF c = EMPTY THEN NoData
    ELSE json_load(c)

\* cowbell_logger.SimpleLogger.load_state: every exception gives None
cb_load_state(c) == json_load(c)

InitStore ==
    /\ files = [f \in FileNames |-> ABSENT]
    /\ fl_pc = "idle" /\ fl_data = NoData /\ fl_ret = "none"
    /\ cb_pc = "idle" /\ cb_data = NoData /\ cb_ret = "none"
    /\ loaded = NoData
    /\ fl_before = ABSENT
    /\ fl_failed_at = "none"
    /\ s_prior = NoData /\ s_new = NoData
    /\ t_prior = NoData /\ t_new = NoData

Idle == fl_pc = "idle" /\ cb_pc = "idle"

\* the finally clause of file_logger.save_state: os.remove(temp_filename),
\* an OSError for a missing file is ignored
fl_finally(fs) == [fs EXCEPT ![temp_name(SettingFile)] = ABSENT]

\* a failed step of file_logger.save_state: the except clause returns False
\* and the finally clause runs
FlFail(fs, step) ==
    /\ files' = fl_finally(fs)
    /\ fl_pc' = "idle"
    /\ fl_ret' = "False"
    /\ fl_failed_at' = step
    /\ UNCHANGED <<fl_data, fl_before, cb_pc, cb_data, cb_ret, loaded,
                   s_prior, s_new, t_prior, t_new>>
    /\ UNCHANGED notStore

\* file_logger.save_state, up to open(temp_filename, 'w')
FlSaveOpen(d, ok) ==
    /\ Idle
    /\ fl_data' = d
    /\ fl_before' = files[SettingFile]
    /\ s_prior' = load_state(files[SettingFile])
    /\ s_new' = d
    /\ IF ok
       THEN /\ files' = [files EXCEPT ![temp_name(SettingFile)] = EMPTY]
            /\ fl_pc' = "opened"
            /\ fl_ret' = "none"
            /\ fl_failed_at' = "none"
       ELSE /\ files' = fl_finally(files)
            /\ fl_pc' = "idle"
            /\ fl_ret' = "False"
            /\ fl_failed_at' = "open"
    /\ UNCHANGED <<cb_pc, cb_data, cb_ret, loaded, t_prior, t_new>>
    /\ UNCHANGED notStore

\* json.dump(state_data, f); f.flush(); a failing write leaves part of the
\* text in the temporary file
FlSaveWrite(ok) ==
    /\ fl_pc = "opened"
    /\ IF ok
       THEN /\ files' = [files EXCEPT ![temp_name(SettingFile)] =
                                          json_dump(fl_data)]
            /\ fl_pc' = "written"
            /\ UNCHANGED <<fl_data, fl_ret, fl_before, fl_failed_at, cb_pc,
                           cb_data, cb_ret, loaded, s_prior, s_new, t_prior,
                           t_new>>
            /\ UNCHANGED notStore
       ELSE FlFail([files EXCEPT ![temp_name(SettingFile)] = PARTIAL], "write")

\* the read-back: json.load of the temporary file and the comparison with
\* state_data
FlSaveVerify(ok) ==
    /\ fl_pc = "written"
    /\ IF ok /\ json_load(files[temp_name(SettingFile)]) = fl_data
       THEN /\ fl_pc' = "verified"
            /\ UNCHANGED <<files, fl_data, fl_ret, fl_before, fl_failed_at,
                           cb_pc, cb_data, cb_ret, loaded, s_prior, s_new,
                           t_prior, t_new>>
            /\ UNCHANGED notStore
       ELSE FlFail(files, IF ok THEN "verify" ELSE "read")

\* os.rename(temp_filename, filename), return True and the finally clause
FlSaveRename(ok) ==
    /\ fl_pc = "verified"
    /\ IF ok
       THEN /\ files' = fl_finally(
                  [files EXCEPT ![SettingFile] = files[temp_name(SettingFile)]])
            /\ fl_pc' = "idle"
            /\ fl_ret' = "True"
            /\ UNCHANGED <<fl_data, fl_before, fl_failed_at, cb_pc, cb_data,
                           cb_ret, loaded, s_prior, s_new, t_prior, t_new>>
            /\ UNCHANGED notStore
       ELSE FlFail(files, "rename")

\* cowbell_logger.save_state, up to open(filename, 'w'), which truncates the
\* file
CbSaveOpen(d, ok) ==
    /\ Idle
    /\ cb_data' = d
    /\ t_prior' = cb_load_state(files[TimerFile])
    /\ t_new' = d
    /\ IF ok
       THEN /\ files' = [files EXCEPT ![TimerFile] = EMPTY]
            /\ cb_pc' = "opened"
            /\ cb_ret' = "none"
       ELSE /\ files' = files
            /\ cb_pc' = "idle"
            /\ cb_ret' = "False"
    /\ UNCHANGED <<fl_pc, fl_data, fl_ret, loaded, fl_before, fl_failed_at,
                   s_prior, s_new>>
    /\ UNCHANGED notStore

\* json.dump(state_data, f) and the return of cowbell_logger.save_state
CbSaveDump(ok) ==
    /\ cb_pc = "opened"
    /\ files' = [files EXCEPT ![TimerFile] =
                                  IF ok THEN json_dump(cb_data) ELSE PARTIAL]
    /\ cb_pc' = "idle"
    /\ cb_ret' = IF ok THEN "True" ELSE "False"
    /\ UNCHANGED <<cb_data, fl_pc, fl_data, fl_ret, loaded, fl_before,
                   fl_failed_at, s_prior, s_new, t_prior, t_new>>
    /\ UNCHANGED notStore

\* cowbell_logger.delete_state(state_file="timer.json")
CbDeleteState ==
    /\ Idle
    /\ files' = [files EXCEPT ![TimerFile] = ABSENT]
    /\ t_prior' = NoData
    /\ t_new' = NoData
    /\ UNCHANGED <<fl_pc, fl_data, fl_ret, cb_pc, cb_data, cb_ret, loaded,
                   fl_before, fl_failed_at, s_prior, s_new>>
    /\ UNCHANGED notStore

\* load_state of either logger
LoadState(f) ==
    /\ Idle
    /\ loaded' = IF f = TimerFile THEN cb_load_state(files[f])
                 ELSE load_state(files[f])
    /\ UNCHANGED <<files, fl_pc, fl_data, fl_ret, cb_pc, cb_data, cb_ret,
                   fl_before, fl_failed_at, s_prior, s_new, t_prior, t_new>>
    /\ UNCHANGED notStore

\* Power loss at any point and the restart: the running save_state is gone,
\* the files are as they were.  file_logger.__init__ runs
\* _cleanup_temp_files before the card is mounted, so the temporary file is
\* removed or not.
CrashRestart(cleaned) ==
    /\ files' = IF cleaned THEN fl_finally(files) ELSE files
    /\ fl_pc' = "idle" /\ fl_ret' = "none"
    /\ cb_pc' = "idle" /\ cb_ret' = "none"
    /\ loaded' = NoData
    /\ UNCHANGED <<fl_data, cb_data, fl_before, fl_failed_at, s_prior, s_new,
                   t_prior, t_new>>
    /\ UNCHANGED notStore

NextStore ==
    \/ \E d \in Data, ok \in BOOLEAN : FlSaveOpen(d, ok)
    \/ \E ok \in BOOLEAN : FlSaveWrite(ok)
    \/ \E ok \in BOOLEAN : FlSaveVerify(ok)
    \/ \E ok \in BOOLEAN : FlSaveRename(ok)
    \/ \E d \in TimerData, ok \in BOOLEAN : CbSaveOpen(d, ok)
    \/ \E ok \in BOOLEAN : CbSaveDump(ok)
    \/ CbDeleteState
    \/ \E f \in {SettingFile, TimerFile} : LoadState(f)
    \/ \E cleaned \in BOOLEAN : CrashRestart(cleaned)


\* ============================================================ EventSystem

MaxPublish == 2     \* publish calls in a behaviour
MaxEntries == 3     \* entries of the three subscription tables together

EventTypes == {"ev"}

\* The handlers: a plain function and two coroutine functions (async def).
Handlers == {"f1", "c1", "c2"}

\* asyncio.iscoroutinefunction(handler)
iscoroutinefunction(h) == h \in {"c1", "c2"}

Elems(q) == {q[i] : i \in 1..Len(q)}

\* [h for h in q if h != handler]
Without(q, handler) == SelectSeq(q, LAMBDA h : h # handler)

Entries(t) ==
    Len(sync_subscribers[t]) + Len(async_subscribers[t])
        + Len(priority_handlers[t])

\* EventSystem.__init__
InitEvents ==
    /\ sync_subscribers = [t \in EventTypes |-> <<>>]
    /\ async_subscribers = [t \in EventTypes |-> <<>>]
    /\ priority_handlers = [t \in EventTypes |-> <<>>]
    /\ history = <<>>
    /\ stats = [events_processed |-> 0, events_dropped |-> 0,
                handler_errors |-> 0]
    /\ ev_pc = "idle"
    /\ ev_type = "ev"
    /\ ev_suspended = {}
    /\ ev_raisers = {}
    /\ ev_log = <<>>
    /\ ev_ret = "none"
    /\ sub_ret = "nocall"
    /\ reg_order = [t \in EventTypes |-> <<>>]
    /\ stats_before = stats

\* EventSystem.subscribe: there is no return statement and no limit
Subscribe(t, handler, priority, is_async) ==
    /\ ev_pc = "idle"
    /\ Entries(t) + (IF priority THEN 2 ELSE 1) <= MaxEntries
    /\ async_subscribers' =
           IF is_async /\ handler \notin Elems(async_subscribers[t])
           THEN [async_subscribers EXCEPT ![t] = Append(@, handler)]
           ELSE async_subscribers
    /\ sync_subscribers' =
           IF ~is_async /\ handler \notin Elems(sync_subscribers[t])
           THEN [sync_subscribers EXCEPT ![t] = Append(@, handler)]
           ELSE sync_subscribers
    /\ priority_handlers' =
           IF priority
           THEN [priority_handlers EXCEPT ![t] = Append(@, handler)]
           ELSE priority_handlers
    /\ sub_ret' = "None"
    /\ reg_order' = IF handler \in Elems(reg_order[t]) THEN reg_order
                    ELSE [reg_order EXCEPT ![t] = Append(@, handler)]
    /\ ev_log' = <<>>
    /\ ev_ret' = "none"
    /\ UNCHANGED <<history, stats, ev_pc, ev_type, ev_suspended, ev_raisers,
                   stats_before>>
    /\ UNCHANGED notEvents

\* EventSystem.unsubscribe
Unsubscribe(t, handler) ==
    /\ ev_pc = "idle"
    /\ handler \in Elems(reg_order[t])
    /\ sync_subscribers' = [sync_subscribers EXCEPT ![t] = Without(@, handler)]
    /\ async_subscribers' =
           [async_subscribers EXCEPT ![t] = Without(@, handler)]
    /\ priority_handlers' =
           [priority_handlers EXCEPT ![t] = Without(@, handler)]
    /\ reg_order' = [reg_order EXCEPT ![t] = Without(@, handler)]
    /\ sub_ret' = "nocall"
    /\ ev_log' = <<>>
    /\ ev_ret' = "none"
    /\ UNCHANGED <<history, stats, ev_pc, ev_type, ev_suspended, ev_raisers,
                   stats_before>>
    /\ UNCHANGED notEvents

\* one handler running from its start to its end or to its exception
run(h, raisers) ==
    << <<"start", h>>, <<IF h \in raisers THEN "raise" ELSE "end", h>> >>

\* the loop over priority_handlers: a coroutine function is awaited, a plain
\* function is called, an exception is caught and counted
RECURSIVE priority_phase(_, _, _)
priority_phase(hs, raisers, acc) ==
    IF hs = <<>> THEN acc
    ELSE priority_phase(Tail(hs), raisers,
             [log |-> acc.log \o run(Head(hs), raisers),
              errors |-> acc.errors + (IF Head(hs) \in raisers THEN 1 ELSE 0)])

\* async_tasks = [handler(event) for handler in async_subscribers]: calling
\* a coroutine function only creates the coroutine, calling a plain function
\* runs it here, and its exception leaves the comprehension
RECURSIVE create_tasks(_, _, _)
create_tasks(hs, raisers, acc) ==
    IF hs = <<>> THEN acc
    ELSE IF iscoroutinefunction(Head(hs))
    THEN create_tasks(Tail(hs), raisers, acc)
    ELSE IF Head(hs) \in raisers
    THEN [log |-> acc.log \o run(Head(hs), raisers), failed |-> TRUE]
    ELSE create_tasks(Tail(hs), raisers,
             [log |-> acc.log \o run(Head(hs), raisers),
              failed |-> acc.failed])

\* asyncio.gather raises TypeError for the None a plain function returned
gather_rejects(hs) == \E h \in Elems(hs) : ~iscoroutinefunction(h)

\* asyncio.gather(*async_tasks, return_exceptions=True): the tasks start in
\* order and each runs to its first suspension or to its end; an exception
\* becomes a result and is not counted
RECURSIVE gather_start(_, _, _, _)
gather_start(hs, raisers, suspenders, log) ==
    IF hs = <<>> THEN log
    ELSE gather_start(Tail(hs), raisers, suspenders,
             IF Head(hs) \in suspenders
             THEN Append(log, <<"start", Head(hs)>>)
             ELSE log \o run(Head(hs), raisers))

\* the loop over sync_subscribers: handler(event) without await, so that a
\* coroutine function only creates a coroutine that never runs
RECURSIVE sync_phase(_, _, _)
sync_phase(hs, raisers, acc) ==
    IF hs = <<>> THEN acc
    ELSE IF iscoroutinefunction(Head(hs))
    THEN sync_phase(Tail(hs), raisers, acc)
    ELSE sync_phase(Tail(hs), raisers,
             [log |-> acc.log \o run(Head(hs), raisers),
              errors |-> acc.errors + (IF Head(hs) \in raisers THEN 1 ELSE 0)])

\* the end of publish after gather: the synchronous handlers, then
\* events_processed += 1
publish_finish(t, raisers, log, errors) ==
    LET f == sync_phase(sync_subscribers[t], raisers,
                        [log |-> log, errors |-> errors])
    IN  /\ ev_log' = f.log
        /\ stats' = [stats EXCEPT !.handler_errors = @ + f.errors,
                                  !.events_processed = @ + 1]
        /\ ev_pc' = "idle"
        /\ ev_ret' = "returned"
        /\ ev_suspended' = {}
        /\ ev_raisers' = {}

\* EventSystem.publish up to its first suspension inside gather, or to its
\* return; raisers are the handlers that raise, suspenders the gathered
\* coroutines that wait for something
Publish(t, raisers, suspenders) ==
    /\ ev_pc = "idle"
    /\ Len(history) < MaxPublish
    /\ raisers \subseteq Elems(reg_order[t])
    /\ suspenders \subseteq Elems(async_subscribers[t])
    /\ history' = Append(history, t)
    /\ ev_type' = t
    /\ stats_before' = stats
    /\ sub_ret' = "nocall"
    /\ LET p == priority_phase(priority_handlers[t], raisers,
                               [log |-> <<>>, errors |-> 0])
           c == create_tasks(async_subscribers[t], raisers,
                             [log |-> p.log, failed |-> FALSE])
           g == gather_start(async_subscribers[t], raisers, suspenders, c.log)
       IN  IF c.failed \/ gather_rejects(async_subscribers[t])
           THEN /\ suspenders = {}
                /\ ev_log' = c.log
                /\ stats' = [stats EXCEPT !.handler_errors = @ + p.errors,
                                          !.events_dropped = @ + 1]
                /\ ev_pc' = "idle"
                /\ ev_ret' = "returned"
                /\ ev_suspended' = {}
                /\ ev_raisers' = {}
           ELSE IF suspenders # {}
           THEN /\ ev_log' = g
                /\ stats' = [stats EXCEPT !.handler_errors = @ + p.errors]
                /\ ev_pc' = "gather"
                /\ ev_ret' = "none"
                /\ ev_suspended' = suspenders
                /\ ev_raisers' = raisers
           ELSE publish_finish(t, raisers, g, p.errors)
    /\ UNCHANGED <<sync_subscribers, async_subscribers, priority_handlers,
                   reg_order>>
    /\ UNCHANGED notEvents

\* a suspended coroutine of the gather is resumed and runs to its end; when
\* it was the last one, gather returns and publish goes on
Resume(h) ==
    /\ ev_pc = "gather"
    /\ h \in ev_suspended
    /\ LET log == Append(ev_log,
                         <<IF h \in ev_raisers THEN "raise" ELSE "end", h>>)
       IN  IF ev_suspended = {h}
           THEN publish_finish(ev_type, ev_raisers, log, 0)
           ELSE /\ ev_log' = log
                /\ ev_suspended' = ev_suspended \ {h}
                /\ UNCHANGED <<stats, ev_pc, ev_ret, ev_raisers>>
    /\ UNCHANGED <<sync_subscribers, async_subscribers, priority_handlers,
                   history, ev_type, sub_ret, reg_order, stats_before>>
    /\ UNCHANGED notEvents

NextEvents ==
    \/ \E t \in EventTypes, h \in Handlers, pr \in BOOLEAN, as \in BOOLEAN :
           Subscribe(t, h, pr, as)
    \/ \E t \in EventTypes, h \in Handlers : Unsubscribe(t, h)
    \/ \E t \in EventTypes, rs \in SUBSET Handlers, ss \in SUBSET Handlers :
           Publish(t, rs, ss)
    \/ \E h \in Handlers : Resume(h)

\* ============================================ SystemController timed heat

\* ------------------------------------------------------------------ bounds
\* _check_timer tasks created in one behaviour
MaxTasks == 2

\* int(hours * 3600) of start_timed_heat, in ticks
Durations == {1, 3}

\* self.get_device('thermostat'): the device factory has registered it
has_thermostat == TRUE

\* os.stat('/sd/timer.json') does not raise. save_state, load_state and
\* delete_state of the cowbell logger are called with path=None and use the
\* bare name "timer.json", which is the file under /sd only when /sd is the
\* working directory.
stat_sd_timer == cwd_is_sd /\ timer_json # None

\* _check_timer: time.time() >= self.timer_end_time
expired_always(t) == TRUE

expired(t) == t >= val(timer_end_time)

\* ThermostatController.__init__ and initialize(): mode off, no reading,
\* relay deactivated, settings from the configuration
thermostat_new ==
    [ThState EXCEPT !.relay_active = FALSE, !.relay_last_change = now,
                    !.heater_mode = "off", !.last_off_time = now,
                    !.last_on_time = 0, !.current_temp = None,
                    !.fsm_state = STATE_IDLE]

\* ThermostatController._handle_timer_start with action "enable"
handle_timer_start(s) ==
    IF s.current_temp = None
    THEN s
    ELSE check_thermostat(apply_setting(s, "HEATER_MODE", "heat"))

\* ThermostatController._handle_timer_end with action "disable"
handle_timer_end(s) ==
    check_thermostat(apply_setting(s, "HEATER_MODE", "off"))

\* SystemController.__init__ and an initialize() that found no timer file
InitTimer ==
    /\ up = TRUE
    /\ cwd_is_sd \in BOOLEAN
    /\ timer_end_time = None
    /\ timer_json = None
    /\ tasks = {}
    /\ n_tasks = 0
    /\ published = <<>>

\* the timer of a process that is not running
InitTimerDown ==
    /\ up = FALSE
    /\ cwd_is_sd = FALSE
    /\ timer_end_time = None
    /\ timer_json = None
    /\ tasks = {}
    /\ n_tasks = 0
    /\ published = <<>>

\* One environment, for the specifications in which the timer does not take
\* part.
InitTimerIdle ==
    /\ InitTimer
    /\ cwd_is_sd = FALSE

\* SystemController.start_timed_heat
StartTimedHeat(seconds) ==
    /\ up
    /\ has_thermostat
    /\ n_tasks < MaxTasks
    /\ timer_end_time' = <<now + seconds>>
    /\ timer_json' = <<now + seconds>>
    /\ published' = Append(published, <<"thermostat_timer_start", now, 0>>)
    /\ SetThVars(handle_timer_start(ThState))
    /\ n_tasks' = n_tasks + 1
    /\ tasks' = tasks \cup {n_tasks + 1}
    /\ UNCHANGED <<up, cwd_is_sd>>
    /\ UNCHANGED notTimer

\* One round of SystemController._check_timer in task k that finds the timer
\* expired; a round that does not changes nothing.
PollTick(k) ==
    /\ up
    /\ k \in tasks
    /\ expired(now)
    /\ timer_json' = None
    /\ published' = Append(published, <<"thermostat_timer_end", now, k>>)
    /\ SetThVars(handle_timer_end(ThState))
    /\ tasks' = tasks \ {k}
    /\ UNCHANGED <<up, cwd_is_sd, timer_end_time, n_tasks>>
    /\ UNCHANGED notTimer

\* The process stops (power loss, reset): the controller, its tasks and the
\* thermostat object are gone, the files stay.
PowerOff ==
    /\ up
    /\ n_tasks < MaxTasks
    /\ up' = FALSE
    /\ tasks' = {}
    /\ timer_end_time' = None
    /\ SetThVars(thermostat_new)
    /\ UNCHANGED <<cwd_is_sd, timer_json, n_tasks, published>>
    /\ UNCHANGED notTimer

\* SystemController.initialize on the next start: the devices are created,
\* then the timer file is looked for.
Initialize ==
    /\ ~up
    /\ up' = TRUE
    /\ SetThVars(thermostat_new)
    /\ IF stat_sd_timer
       THEN IF val(timer_json) # 0 /\ val(timer_json) > now
            THEN /\ timer_end_time' = timer_json
                 /\ n_tasks' = n_tasks + 1
                 /\ tasks' = {n_tasks + 1}
                 /\ timer_json' = timer_json
            ELSE /\ timer_json' = None
                 /\ UNCHANGED <<timer_end_time, tasks, n_tasks>>
       ELSE UNCHANGED <<timer_end_time, timer_json, tasks, n_tasks>>
    /\ UNCHANGED <<cwd_is_sd, published>>
    /\ UNCHANGED notTimer

\* temperature_current reaches the thermostat of a running process
TimerTemperature(temp) ==
    /\ up
    /\ HandleTemperature(temp)

\* Time passes. A running _check_timer task wakes every 5 s, many times in
\* one tick, so the clock of a running process does not leave a tick in
\* which a task has still to find its timer expired.
TimerTick ==
    /\ up => \A k \in tasks : ~expired(now)
    /\ Tick

NextTimer ==
    \/ \E d \in Durations : StartTimedHeat(d)
    \/ \E k \in 1..MaxTasks : PollTick(k)
    \/ PowerOff
    \/ Initialize
    \/ TimerTick
    \/ \E t \in {<<x>> : x \in Temps} : TimerTemperature(t)

\* ======================================= SettingsManager and SystemConfig

\* the keys of SystemConfig.TEMP_SETTINGS
TempSettingKeys ==
    {"MIN_TEMP", "MAX_TEMP", "MIN_RUN_TIME", "CYCLE_DELAY", "DEFAULT_SETPOINT",
     "TEMP_DIFFERENTIAL", "TARGET_TEMP", "HEATER_MODE"}

\* the class-level defaults of the entries that are settings: 180 s, 300 s
\* (three whole ticks), 2 F (the smallest positive differential), 'off'
ConfigDefaults ==
    [CYCLE_DELAY |-> RelayCycleDelay, MIN_RUN_TIME |-> 3,
     TEMP_DIFFERENTIAL |-> 1, HEATER_MODE |-> "off"]

\* the values temp_setting_changed events carry: a valid one, an invalid one
EventValues(setting) ==
    CASE setting = "SETPOINT"          -> {6, 4}
      [] setting = "CYCLE_DELAY"       -> {1, -1}
      [] setting = "MIN_RUN_TIME"      -> {0, -1}
      [] setting = "TEMP_DIFFERENTIAL" -> {1, 0}
      [] setting = "HEATER_MODE"       -> {"heat", "off", "cool"}

\* SettingsManager._validate_temp_setting (50..90 F is 5..9)
validate_temp_setting(setting, value) ==
    CASE setting = "SETPOINT"          -> 5 <= value /\ value <= 9
      [] setting = "CYCLE_DELAY"       -> value >= 0
      [] setting = "MIN_RUN_TIME"      -> value >= 0
      [] setting = "TEMP_DIFFERENTIAL" -> value > 0
      [] setting = "HEATER_MODE"       -> value \in {"heat", "off"}
      [] OTHER -> FALSE

\* SystemConfig.update_setting('TEMP_SETTINGS', setting, value) succeeds
update_setting_ok(setting) == setting \in TempSettingKeys

\* A setting file: <<>> when missing, <<"empty">>, <<"corrupt">> (not JSON),
\* <<"malformed">> (JSON without the two keys), or <<"ok", value, timestamp>>.
saved(value, timestamp) == <<"ok", value, timestamp>>

\* SettingsManager._handle_temp_setting_change on the state
\* [cfg, sfiles, ret, log]; save_state writes the file
handle_temp_setting_change(st, setting, value) ==
    IF ~validate_temp_setting(setting, value)
    THEN [st EXCEPT !.ret = "False"]
    ELSE IF update_setting_ok(setting)
         THEN [st EXCEPT !.cfg[setting] = value,
                         !.sfiles[setting] = saved(value, now),
                         !.ret = "True"]
         ELSE [st EXCEPT !.ret = "False"]

\* the order of restore_all_settings
RestoreOrder ==
    <<"SETPOINT", "CYCLE_DELAY", "MIN_RUN_TIME", "TEMP_DIFFERENTIAL",
      "HEATER_MODE">>

\* the range test of the _restore_* methods
restore_in_range_any(setting, value) == TRUE

restore_in_range(setting, value) ==
    CASE setting = "SETPOINT"          -> 5 <= value /\ value <= 9
      [] setting = "CYCLE_DELAY"       -> ~(value < 0)
      [] setting = "MIN_RUN_TIME"      -> ~(value < 0)
      [] setting = "TEMP_DIFFERENTIAL" -> ~(value <= 0)
      [] setting = "HEATER_MODE"       -> value \in {"heat", "off"}

\* a _restore_* method reaches its publish: load_state returned a state
\* (the file is there, not empty, and parses), both keys are in it and the
\* value is in range
restorable(setting, f) ==
    /\ f # <<>>
    /\ f[1] = "ok"
    /\ restore_in_range(setting, f[2])

\* restore_all_settings from the i-th setting on: each published event is
\* delivered to the SettingsManager, the only subscriber at that point
RECURSIVE restore_from(_, _)
restore_from(st, i) ==
    IF i > Len(RestoreOrder) THEN st
    ELSE LET setting == RestoreOrder[i]
             f == st.sfiles[setting]
         IN  IF restorable(setting, f)
             THEN restore_from(
                      handle_temp_setting_change(
                          [st EXCEPT !.log = Append(@, <<setting, f[2]>>)],
                          setting, f[2]),
                      i + 1)
             ELSE restore_from(st, i + 1)

\* ThermostatController.__init__ finds TEMP_SETTINGS['SETPOINT']
th_constructs == "SETPOINT" \in TempSettingKeys

\* everything of the settings but the files: the configuration the
\* thermostat was constructed from, nothing observed yet
InitSettingsBut ==
    /\ cfg = [CYCLE_DELAY |-> cycle_delay, MIN_RUN_TIME |-> min_run_time,
              TEMP_DIFFERENTIAL |-> temp_differential, HEATER_MODE |-> "off"]
    /\ th_up = TRUE
    /\ last_change = <<>>
    /\ last_valid = [s \in Settings |-> <<>>]
    /\ sm_ret = "none"
    /\ restored = <<>>

\* after a start that restored the three timing settings from their files
InitSettings ==
    /\ InitSettingsBut
    /\ sfiles = [s \in Settings |->
                    CASE s = "CYCLE_DELAY" -> saved(cycle_delay, 0)
                      [] s = "MIN_RUN_TIME" -> saved(min_run_time, 0)
                      [] s = "TEMP_DIFFERENTIAL" -> saved(temp_differential, 0)
                      [] OTHER -> <<>>]

\* a first start: no setting file yet, the configuration holds the class
\* defaults
InitSettingsFresh ==
    /\ cfg = ConfigDefaults
    /\ th_up = TRUE
    /\ last_change = <<>>
    /\ last_valid = [s \in Settings |-> <<>>]
    /\ sm_ret = "none"
    /\ restored = <<>>
    /\ sfiles = [s \in Settings |-> <<>>]

\* what a setting file can hold when a start finds it: missing, empty,
\* corrupt, malformed, or a saved value in or out of range
FileStates(setting) ==
    {<<>>, <<"empty">>, <<"corrupt">>, <<"malformed">>}
        \cup {saved(v, 0) : v \in EventValues(setting)}

\* a stopped process with any files on the card
InitSettingsAnyFiles ==
    /\ InitSettingsBut
    /\ \E f1 \in FileStates("SETPOINT"), f2 \in FileStates("CYCLE_DELAY"),
          f3 \in FileStates("MIN_RUN_TIME"),
          f4 \in FileStates("TEMP_DIFFERENTIAL"),
          f5 \in FileStates("HEATER_MODE") :
          sfiles = [SETPOINT |-> f1, CYCLE_DELAY |-> f2, MIN_RUN_TIME |-> f3,
                    TEMP_DIFFERENTIAL |-> f4, HEATER_MODE |-> f5]

\* temp_setting_changed is published: the SettingsManager handles it, then
\* the ThermostatController if there is one
SettingChanged(setting, value) ==
    /\ up
    /\ LET st == handle_temp_setting_change(
                     [cfg |-> cfg, sfiles |-> sfiles, ret |-> "none",
                      log |-> <<>>], setting, value)
       IN  /\ cfg' = st.cfg
           /\ sfiles' = st.sfiles
           /\ sm_ret' = st.ret
    /\ IF th_up
       THEN SetThVars(check_thermostat(apply_setting(ThState, setting, value)))
       ELSE UNCHANGED thVars
    /\ last_change' = <<setting, value>>
    /\ last_valid' = IF validate_temp_setting(setting, value)
                     THEN [last_valid EXCEPT ![setting] = <<value>>]
                     ELSE last_valid
    /\ UNCHANGED <<th_up, restored>>
    /\ UNCHANGED timerVars
    /\ UNCHANGED notSettings

\* SystemController.initialize of a new process up to the creation of the
\* devices: the configuration holds its defaults, restore_all_settings
\* runs, then DeviceFactory.create_devices constructs the thermostat.
Boot ==
    /\ ~up
    /\ up' = TRUE
    /\ LET st == restore_from([cfg |-> ConfigDefaults, sfiles |-> sfiles,
                               ret |-> "none", log |-> <<>>], 1)
       IN  /\ cfg' = st.cfg
           /\ sfiles' = st.sfiles
           /\ sm_ret' = st.ret
           /\ restored' = st.log
           /\ th_up' = th_constructs
           /\ IF th_constructs
              THEN SetThVars([thermostat_new EXCEPT
                       !.setpoint = st.cfg["SETPOINT"],
                       !.cycle_delay = st.cfg["CYCLE_DELAY"],
                       !.min_run_time = st.cfg["MIN_RUN_TIME"],
                       !.temp_differential = st.cfg["TEMP_DIFFERENTIAL"]])
              ELSE SetThVars(thermostat_new)
    /\ UNCHANGED <<last_change, last_valid>>
    /\ UNCHANGED <<cwd_is_sd, timer_end_time, timer_json, tasks, n_tasks,
                   published>>
    /\ UNCHANGED notSettings

NextSettings ==
    \/ \E s \in Settings : \E v \in EventValues(s) : SettingChanged(s, v)
    \/ PowerOff
    \/ Boot

\* ============================== SystemController's temperature loop

\* the events one pass of _monitor_temperature publishes when the sensor
\* read fails: the branch only logs
sensor_error_published == {}

\* SystemState of system_controller.py
RUNNING == "running"
SHUTDOWN == "shutdown"

\* the system after SystemController.initialize has returned True
InitSys ==
    /\ sensor_failed = FALSE
    /\ error_events = {}
    /\ last_published = <<>>
    /\ op_ret = "none"
    /\ system_state = RUNNING
    /\ monitoring = TRUE

\* one pass of the loop of SystemController._monitor_temperature: a reading
\* is published as temperature_current and handled by the thermostat, a
\* failed read (None) is logged and nothing is published
MonitorTemperature(temp) ==
    /\ system_state = RUNNING
    /\ IF temp = None
       THEN /\ SetThVars(ThState)
            /\ sensor_failed' = TRUE
            /\ error_events' = error_events \cup sensor_error_published
       ELSE /\ SetThVars(check_thermostat([ThState EXCEPT !.current_temp = temp]))
            /\ sensor_failed' = FALSE
            /\ UNCHANGED error_events
    /\ UNCHANGED <<last_published, op_ret, system_state, monitoring>>
    /\ UNCHANGED notSys

\* the control loop with a sensor that may fail: the temperature task, the
\* periodic monitor() of _monitor_cycle, and the mode changes
NextSensor ==
    \/ \E t \in {<<x>> : x \in Temps} \cup {None} : MonitorTemperature(t)
    \/ Monitor
    \/ EnableHeater
    \/ DisableHeater
    \/ Tick

\* --------------------------------------------------------------- shutdown

\* SystemController.run, called by the loop of GarageOS.run: one monitoring
\* cycle while _monitoring is set, which calls the thermostat's monitor()
RunCycle ==
    /\ monitoring
    /\ Monitor

\* SystemController.safe_shutdown, called by GarageOS.safe_shutdown: clears
\* _monitoring, sets the state, publishes system_state (nothing of the
\* running system subscribes to it) and stops the subsystems. No device is
\* cleaned up and the relay is not commanded.
SafeShutdown ==
    /\ system_state = RUNNING
    /\ monitoring' = FALSE
    /\ system_state' = SHUTDOWN
    /\ UNCHANGED <<sensor_failed, error_events, last_published, op_ret>>
    /\ UNCHANGED thVars
    /\ UNCHANGED notSys

\* the running system until and after its shutdown: the temperature task
\* and the monitoring cycle stop with it, the console task goes on
NextShutdown ==
    \/ \E t \in {<<x>> : x \in Temps} : MonitorTemperature(t)
    \/ RunCycle
    \/ EnableHeater
    \/ DisableHeater
    \/ Tick
    \/ SafeShutdown

\* ------------------------------------------------- interleaved evaluations

\* the coroutines that end in _check_thermostat: the temperature task, the
\* monitoring cycle, a setting change from the console, the timer poll
EvalTasks == {"temperature", "monitor", "setting", "timer"}

HEATER_ACTIVATED   == "heater_activated"
HEATER_DEACTIVATED == "heater_deactivated"

InitTasks ==
    /\ pending = [t \in EvalTasks |-> "none"]
    /\ last_heater_event = "none"

\* the event _turn_on / _turn_off published in an evaluation with this
\* outcome
heater_event(r) ==
    IF r.outcome = "on" THEN HEATER_ACTIVATED ELSE HEATER_DEACTIVATED

\* the state _check_thermostat requests after _turn_on / _turn_off has
\* returned, s being what the evaluation found
requested_state(s, r) ==
    IF r.outcome = "on" THEN STATE_HEATING
    ELSE IF ~heater_enabled(s) \/ s.current_temp = None THEN STATE_DISABLED
    ELSE STATE_IDLE

\* One run of _check_thermostat by a task, s being what it is handed. The
\* code from the first test to the relay command, the time stamp and the
\* history.append of EventSystem.publish has no point where the coroutine
\* can be suspended; publish can suspend its caller while it awaits the
\* event's handlers, before the evaluation goes on to its transition.
Evaluate(task, s) ==
    /\ pending[task] = "none"
    /\ LET r == check_thermostat(s)
       IN  \/ /\ SetThVars(r)
              /\ last_heater_event' =
                     IF r.outcome \in {"on", "off"} THEN heater_event(r)
                     ELSE last_heater_event
              /\ UNCHANGED pending
           \/ /\ r.outcome \in {"on", "off"}
              /\ SetThVars([r EXCEPT !.fsm_state = s.fsm_state,
                                     !.cycle_delay_start = s.cycle_delay_start])
              /\ last_heater_event' = heater_event(r)
              /\ pending' = [pending EXCEPT ![task] = requested_state(s, r)]
    /\ UNCHANGED notTasks

\* publish has returned to a suspended evaluation: the transition it was
\* about to request
ResumeEvaluation(task) ==
    /\ pending[task] # "none"
    /\ SetThVars(transition(ThState, pending[task]))
    /\ pending' = [pending EXCEPT ![task] = "none"]
    /\ UNCHANGED last_heater_event
    /\ UNCHANGED notTasks

\* SystemController._monitor_temperature: a reading handled by
\* _handle_temperature
TemperatureTask(temp) ==
    /\ TRUE
    /\ Evaluate("temperature", [ThState EXCEPT !.current_temp = temp])

\* SystemController._monitor_cycle: the thermostat's monitor()
MonitorTask ==
    /\ controller_enabled
    /\ Evaluate("monitor", ThState)

\* a temp_setting_changed event from the console, handled by
\* _handle_setting_change
SettingTask(setting, value) ==
    /\ setting \in Settings
    /\ Evaluate("setting", apply_setting(ThState, setting, value))

\* the timer poll: thermostat_timer_start enables the heater (refused
\* without a reading), thermostat_timer_end disables it
TimerTask(mode) ==
    /\ (mode = "heat") => (current_temp # None)
    /\ Evaluate("timer", apply_setting(ThState, "HEATER_MODE", mode))

NextTasks ==
    \/ \E t \in {<<x>> : x \in Temps} : TemperatureTask(t)
    \/ MonitorTask
    \/ \E v \in ModeVals : SettingTask("HEATER_MODE", v)
    \/ \E v \in SetpointVals : SettingTask("SETPOINT", v)
    \/ \E m \in ModeVals : TimerTask(m)
    \/ \E t \in EvalTasks : ResumeEvaluation(t)
    \/ Tick

\* ===================================== IoTController.initialize_system

\* ------------------------------------------------------------------ bounds
MaxCalls == 2       \* calls of initialize_system in one behaviour

\* -------------------------------------------------------- program constants
RETRY_ATTEMPTS == 3

INITIALIZING == "initializing"
READY        == "ready"
ERROR        == "error"

\* how one pass through the try block ends: it returns True, or one of the
\* three steps raises before state = READY, or _publish_system_state raises
\* after it
AttemptOutcomes ==
    {"ok", "hardware", "controllers", "communication", "publish"}

\* mutant of retry_exhausted: one more attempt is allowed
retry_exhausted_late(n) == n > RETRY_ATTEMPTS

\* self.initialization_retry >= RETRY_ATTEMPTS
retry_exhausted(n) == n >= RETRY_ATTEMPTS

\* IoTController.__init__
InitIoT ==
    /\ iot_state = INITIALIZING
    /\ initialization_retry = 0
    /\ error_log = <<>>
    /\ init_pc = "idle"
    /\ init_ret = "none"
    /\ call_attempts = 0
    /\ n_calls = 0

\* main calls initialize_system, at the start or again after it returned
InitializeSystem ==
    /\ init_pc \in {"idle", "returned"}
    /\ n_calls < MaxCalls
    /\ n_calls' = n_calls + 1
    /\ init_pc' = "attempt"
    /\ init_ret' = "none"
    /\ call_attempts' = 0
    /\ UNCHANGED <<iot_state, initialization_retry, error_log>>
    /\ UNCHANGED notIoT

\* one pass through the body of initialize_system, up to its return or to
\* the asyncio.sleep(5) before the recursive call
Attempt(result) ==
    /\ init_pc = "attempt"
    /\ call_attempts' = call_attempts + 1
    /\ IF result = "ok"
       THEN /\ iot_state' = READY
            /\ init_pc' = "returned"
            /\ init_ret' = "True"
            /\ UNCHANGED <<initialization_retry, error_log>>
       ELSE /\ error_log' = Append(error_log, result)
            /\ initialization_retry' = initialization_retry + 1
            /\ IF retry_exhausted(initialization_retry')
               THEN /\ iot_state' = ERROR
                    /\ init_pc' = "returned"
                    /\ init_ret' = "False"
               ELSE /\ iot_state' = IF result = "publish" THEN READY
                                     ELSE iot_state
                    /\ init_pc' = "sleep"
                    /\ UNCHANGED init_ret
    /\ UNCHANGED n_calls
    /\ UNCHANGED notIoT

\* asyncio.sleep(5) returns and initialize_system calls itself
RetryAfterSleep ==
    /\ init_pc = "sleep"
    /\ init_pc' = "attempt"
    /\ UNCHANGED <<iot_state, initialization_retry, error_log, init_ret,
                   call_attempts, n_calls>>
    /\ UNCHANGED notIoT

NextIoT ==
    \/ InitializeSystem
    \/ \E o \in AttemptOutcomes : Attempt(o)
    \/ RetryAfterSleep

\* ==================================== the thermostat on the EventSystem

\* ThermostatController._handle_setting_change, a coroutine function that
\* __init__ subscribes with subscribe("temp_setting_changed", handler), and
\* the event type it is subscribed to
th_setting_handler == "c1"
SettingEvent == "ev"

\* what the handlers log during one publish of type t in which no handler
\* raises or waits
publish_log(t) ==
    LET p == priority_phase(priority_handlers[t], {},
                            [log |-> <<>>, errors |-> 0])
        g == gather_start(async_subscribers[t], {}, {}, p.log)
    IN  sync_phase(sync_subscribers[t], {}, [log |-> g, errors |-> 0]).log

\* one publish of type t runs the body of handler h
publish_runs(t, h) ==
    \E i \in 1..Len(publish_log(t)) : publish_log(t)[i] = <<"start", h>>

\* EventSystem.__init__ followed by the subscribe call of
\* ThermostatController.__init__ (defaults: priority=False, is_async=False)
InitEventsSubscribed ==
    /\ sync_subscribers = [t \in EventTypes |-> <<th_setting_handler>>]
    /\ async_subscribers = [t \in EventTypes |-> <<>>]
    /\ priority_handlers = [t \in EventTypes |-> <<>>]
    /\ history = <<>>
    /\ stats = [events_processed |-> 0, events_dropped |-> 0,
                handler_errors |-> 0]
    /\ ev_pc = "idle"
    /\ ev_type = SettingEvent
    /\ ev_suspended = {}
    /\ ev_raisers = {}
    /\ ev_log = <<>>
    /\ ev_ret = "none"
    /\ sub_ret = "nocall"
    /\ reg_order = [t \in EventTypes |-> <<th_setting_handler>>]
    /\ stats_before = stats

\* await self.events.publish("temp_setting_changed", {setting, value}) with
\* the EventSystem of Events.py: the thermostat's handler changes the
\* thermostat only if the publish runs it
bus_publish(setting, value, ret) ==
    /\ Len(history) < MaxPublish
    /\ history' = Append(history, SettingEvent)
    /\ ev_type' = SettingEvent
    /\ stats_before' = stats
    /\ stats' = [stats EXCEPT !.events_processed = @ + 1]
    /\ ev_log' = publish_log(SettingEvent)
    /\ ev_ret' = "returned"
    /\ sub_ret' = "nocall"
    /\ UNCHANGED <<sync_subscribers, async_subscribers, priority_handlers,
                   ev_pc, ev_suspended, ev_raisers, reg_order>>
    /\ SetThVars(IF publish_runs(SettingEvent, th_setting_handler)
                 THEN check_thermostat(apply_setting(ThState, setting, value))
                 ELSE ThState)
    /\ last_published' = <<setting, value>>
    /\ op_ret' = ret
    /\ UNCHANGED <<sensor_failed, error_events, system_state, monitoring>>
    /\ UNCHANGED <<safetyVars, storeVars, timerVars, settingsVars, iotVars,
                   taskVars>>

\* a temp_setting_changed event published by the console or the timer
PublishSettingChanged(setting, value) ==
    /\ setting \in Settings
    /\ bus_publish(setting, value, "none")

\* ThermostatController.enable_heater
EnableHeaterOnBus ==
    IF current_temp = None
    THEN /\ op_ret' = "False"
         /\ last_published' = <<>>
         /\ SetThVars(ThState)
         /\ UNCHANGED <<sensor_failed, error_events, system_state, monitoring>>
         /\ UNCHANGED <<safetyVars, storeVars, evVars, timerVars,
                        settingsVars, iotVars, taskVars>>
    ELSE /\ TRUE
         /\ bus_publish("HEATER_MODE", "heat", "True")

\* ThermostatController.disable_heater
DisableHeaterOnBus ==
    /\ TRUE    \* no guard: the publish is unconditional
    /\ bus_publish("HEATER_MODE", "off", "None")

\* the thermostat with its setting changes going through the EventSystem;
\* readings are handed to _handle_temperature directly
NextOnBus ==
    \/ \E t \in {<<x>> : x \in Temps} : HandleTemperature(t)
    \/ EnableHeaterOnBus
    \/ DisableHeaterOnBus
    \/ \E v \in SetpointVals : PublishSettingChanged("SETPOINT", v)
    \/ \E v \in CycleDelayVals : PublishSettingChanged("CYCLE_DELAY", v)
    \/ \E v \in ModeVals : PublishSettingChanged("HEATER_MODE", v)
    \/ Tick

\* One configuration of the thermostat, for the specifications in which it
\* does not take part.
InitThermoIdle ==
    /\ InitThermo
    /\ setpoint = 7 /\ cycle_delay = 3 /\ min_run_time = 2
    /\ temp_differential = 2

\* The whole system after construction: SystemController.initialize builds
\* the logger, the safety monitor and the thermostat.
Init ==
    InitThermo /\ InitSafety /\ InitStore /\ InitEvents /\ InitTimerIdle
        /\ InitSettingsFresh /\ InitSys /\ InitIoT /\ InitTasks

\* the same with the thermostat in the one configuration
InitOneConfig ==
    InitThermoIdle /\ InitSafety /\ InitStore /\ InitEvents /\ InitTimerIdle
        /\ InitSettings /\ InitSys /\ InitIoT /\ InitTasks

\* the same in either working directory
InitBoot ==
    InitThermoIdle /\ InitSafety /\ InitStore /\ InitEvents /\ InitTimer
        /\ InitSettings /\ InitSys /\ InitIoT /\ InitTasks

\* the thermostat constructed and subscribed to the event system
InitOnBus ==
    InitThermoIdle /\ InitSafety /\ InitStore /\ InitEventsSubscribed
        /\ InitTimerIdle /\ InitSettings /\ InitSys /\ InitIoT /\ InitTasks

SpecThermo ==
    Init /\ [][NextThermo]_vars

SpecSensor ==
    InitOneConfig /\ [][NextSensor]_vars

SpecTasks ==
    InitOneConfig /\ [][NextTasks]_vars

SpecShutdown ==
    InitOneConfig /\ [][NextShutdown]_vars

SpecOnBus ==
    InitOnBus /\ [][NextOnBus]_vars

\* the awaited attempt and the sleep both go on once they can
SpecIoT ==
    InitOneConfig /\ [][NextIoT]_vars
        /\ WF_vars(\E o \in AttemptOutcomes : Attempt(o))
        /\ WF_vars(RetryAfterSleep)

SpecSafety ==
    InitOneConfig /\ [][NextSafety]_vars

SpecThrottle ==
    InitOneConfig /\ [][NextThrottle]_vars

SpecStore ==
    InitOneConfig /\ [][NextStore]_vars

\* save_state and load_state of either logger called with any data, no
\* power loss
NextRoundTrip ==
    \/ \E d \in Data, ok \in BOOLEAN : FlSaveOpen(d, ok)
    \/ \E ok \in BOOLEAN : FlSaveWrite(ok)
    \/ \E ok \in BOOLEAN : FlSaveVerify(ok)
    \/ \E ok \in BOOLEAN : FlSaveRename(ok)
    \/ \E d \in Data, ok \in BOOLEAN : CbSaveOpen(d, ok)
    \/ \E ok \in BOOLEAN : CbSaveDump(ok)
    \/ \E f \in {SettingFile, TimerFile} : LoadState(f)

SpecRoundTrip ==
    InitOneConfig /\ [][NextRoundTrip]_vars

SpecEvents ==
    InitOneConfig /\ [][NextEvents]_vars

SpecTimer ==
    InitBoot /\ [][NextTimer]_vars

\* before a start, with any setting files
InitRestore ==
    InitThermoIdle /\ InitSafety /\ InitStore /\ InitEvents /\ InitTimerDown
        /\ InitSettingsAnyFiles /\ InitSys /\ InitIoT /\ InitTasks

NextRestore ==
    \/ Boot

SpecRestore ==
    InitRestore /\ [][NextRestore]_vars

SpecSettings ==
    InitOneConfig /\ [][NextSettings]_vars

\* ===================================================== thermostat claims

\* a step in which the relay goes from active to inactive, and the reverse
Deactivates == relay_active /\ ~relay_active'
Activates   == ~relay_active /\ relay_active'

ThmC2_CycleDelay ==
    [][Activates => now - relay_last_change >= cycle_delay']_vars

\* C2 witness: the relay was switched off by the controller and an
\* evaluation inside the cycle delay left it off although heating is
\* enabled and the room is cold.
WitC2_HeldOff ==
    /\ outcome = "hold_cycle"
    /\ ~relay_active
    /\ last_on_time > 0
    /\ relay_last_change > last_on_time
    /\ heater_mode = "heat"
    /\ current_temp # None
    /\ val(current_temp) <= setpoint - temp_differential

\* C8 (as claimed): an evaluation that finds the relay inactive, the cycle
\* delay elapsed, heater_mode Heat and a known temperature activates the
\* relay if and only if current_temp <= setpoint - temp_differential.
CexC8_SwitchOnIff ==
    [][ ( /\ outcome' # "none"
          /\ ~relay_active
          /\ now - last_off_time >= cycle_delay'
          /\ heater_mode' = "heat"
          /\ current_temp' # None )
        => ( relay_active'
               <=> val(current_temp') <= setpoint' - temp_differential' ) ]_vars

\* C9 (as claimed): an evaluation that finds the relay active, the minimum
\* run time elapsed and heater_mode Heat, with a known temperature,
\* deactivates the relay if and only if
\* current_temp >= setpoint + temp_differential; strictly inside the band
\* the relay keeps its state.
CexC9_SwitchOffIff ==
    [][ ( /\ outcome' # "none"
          /\ relay_active
          /\ now - last_on_time >= min_run_time'
          /\ heater_mode' = "heat"
          /\ current_temp' # None )
        => ( ~relay_active'
               <=> val(current_temp') >= setpoint' + temp_differential' ) ]_vars

CexC11_ImmediateCutoff ==
    [][ ( /\ outcome' # "none"
          /\ relay_active
          /\ heater_mode' = "off"
          /\ now - last_on_time >= min_run_time' )
        => ~relay_active' ]_vars

ThmC5_ThresholdStop ==
    \A c \in Registered :
        LET cond == conditions[c] IN
        (cond.severity = CRITICAL /\ cond.threshold = 3) =>
            /\ cond.violation_count <= 3
            /\ cond.stops = (IF cond.violation_count = 3 THEN 1 ELSE 0)
            /\ (cond.did = "estop") => (cond.violation_count = 3)
            /\ (cond.did = "counted") => (cond.violation_count \in {1, 2})
            /\ (cond.did = "safe") => (cond.violation_count = 0)
            /\ (cond.stops = 1) => (~active /\ status = FAILURE)

\* C5 witness: the Critical threshold-3 condition failed three checks in a
\* row and the third one stopped the system.
WitC5_ThirdCheckStops ==
    /\ conditions["c1"].registered
    /\ conditions["c1"].severity = CRITICAL
    /\ conditions["c1"].threshold = 3
    /\ conditions["c1"].violation_count = 3
    /\ conditions["c1"].did = "estop"
    /\ conditions["c1"].stops = 1
    /\ ~active

\* a step in which emergency_stop() ran
EstopStep == last_call' = "estop" \/ (active /\ ~active')

\* C6: emergency_stop invokes every registered stop function once, in
\* registration order, whichever of them raise, and leaves the monitor
\* with status Failure and active False.
ThmC6_EmergencyStopAll ==
    [][EstopStep => /\ stop_log' = emergency_stops
                    /\ status' = FAILURE
                    /\ ~active']_vars

\* C6 witness: two stop functions are registered, the first one raised and
\* the second one was still invoked.
WitC6_FirstRaised ==
    /\ ~active
    /\ Len(emergency_stops) = 2
    /\ stop_log = emergency_stops
    /\ stop_log[1] \in stop_raised
    /\ stop_log[2] \notin stop_raised

\* C7: the emergency stop latches. Once the monitor is off, no check_safety,
\* add_condition or register_emergency_stop turns it on again or moves its
\* status away from Failure, and a check_safety evaluates no condition,
\* changes no violation_count and invokes no recovery action or stop
\* function.
ThmC7_StopLatches ==
    [][~active =>
         /\ ~active'
         /\ status' = FAILURE
         /\ (last_call' \in {"True", "False"}) =>
               /\ last_call' = "False"
               /\ stop_log' = stop_log
               /\ \A c \in CondNames :
                     /\ conditions'[c].registered = conditions[c].registered
                     /\ conditions[c].registered =>
                          /\ conditions'[c].did = "notrun"
                          /\ conditions'[c].violation_count
                                 = conditions[c].violation_count ]_vars

\* C7 witness: after the stop a condition was added and check_safety was
\* called; the call returned False without evaluating the condition.
WitC7_CheckAfterStop ==
    /\ ~active
    /\ status = FAILURE
    /\ last_call = "False"
    /\ \E c \in Registered : /\ conditions[c].did = "notrun"
                             /\ conditions[c].violation_count = 0
    /\ \E c \in Registered : conditions[c].stops = 1

\* the last check_safety brought the condition's violation_count to its
\* threshold (and so called _handle_violation for it)
ThresholdReached(c) ==
    /\ last_call \in {"True", "False"}
    /\ conditions[c].registered
    /\ conditions[c].did \in {"estop", "recovery", "handled"}

\* C26: recovery action always runs. Whenever a check_safety brings a
\* condition's violation_count to its threshold, the condition's
\* recovery_action, if it has one, is invoked, whatever the severity, and
\* the check_safety returns False.
CexC26_RecoveryAlwaysRuns ==
    \A c \in CondNames :
        (ThresholdReached(c) /\ conditions[c].recovery_action) =>
            /\ conditions[c].did = "recovery"
            /\ last_call = "False"

\* C27: severity escalation. A check_safety that brings a condition's
\* violation_count to its threshold triggers emergency_stop for it if and
\* only if the condition's severity is High or Critical; a check_safety in
\* which only Low or Medium conditions reach their threshold leaves the
\* monitor's status and active flag as they were.
ThmC27_SeverityEscalation ==
    [][(last_call' \in {"True", "False"}) =>
         /\ \A c \in CondNames :
               ThresholdReached(c)' =>
                   /\ (conditions'[c].did = "estop")
                          <=> (conditions'[c].severity \in {HIGH, CRITICAL})
                   /\ conditions'[c].stops = conditions[c].stops
                          + (IF conditions'[c].severity \in {HIGH, CRITICAL}
                             THEN 1 ELSE 0)
         /\ (\A c \in CondNames :
                ThresholdReached(c)' =>
                    conditions'[c].severity \in {LOW, MEDIUM})
             => (status' = status /\ active' = active) ]_vars

\* C27 witness: one check_safety brought a Medium and a Low condition to
\* their thresholds; the monitor is still on with status Normal.
WitC27_LowMediumNoStop ==
    /\ ThresholdReached("c1") /\ conditions["c1"].severity = MEDIUM
    /\ conditions["c1"].did = "recovery"
    /\ ThresholdReached("c2") /\ conditions["c2"].severity = LOW
    /\ conditions["c2"].did = "handled"
    /\ active
    /\ status = NORMAL

\* C28: fail-unsafe checks. If a condition's check function raises during
\* a check_safety, that condition's status becomes Failure, the
\* check_safety returns False, and the other conditions are still
\* evaluated in the same call.
CexC28_FailUnsafe ==
    \A c \in CondNames :
        (/\ last_call \in {"True", "False"}
         /\ conditions[c].registered
         /\ conditions[c].did = "raise") =>
            /\ conditions[c].status = FAILURE
            /\ last_call = "False"
            /\ \A d \in Registered : conditions[d].did # "notrun"

\* C29: check throttling. A check_safety called less than check_interval
\* after the previous evaluation evaluates no condition and changes no
\* violation_count.
CexC29_CheckThrottled ==
    [][(within_interval /\ last_call' \in {"True", "False"}) =>
         \A c \in CondNames :
             conditions[c].registered =>
                 /\ conditions'[c].did = "notrun"
                 /\ conditions'[c].violation_count
                        = conditions[c].violation_count ]_vars

\* C30: a threshold-reaching violation is announced. Whenever a
\* check_safety brings a condition's violation_count to its threshold, the
\* condition's status becomes Violation and a safety_violation event
\* naming the condition, its severity and its status has been published.
CexC30_ViolationAnnounced ==
    \A c \in CondNames :
        ThresholdReached(c) =>
            /\ conditions[c].status = VIOLATION
            /\ [event |-> "safety_violation", condition |-> c,
                severity |-> conditions[c].severity, status |-> VIOLATION]
                   \in violation_events

\* ==================================================== event system claims

\* the limit the tests import from core.Events; Events.py does not define it
MAX_SUBSCRIBERS == 20

\* the log of handlers that ran one after the other, none starting before
\* the one before it had ended
Sequential(log) ==
    \A i \in 1..Len(log) :
        IF i % 2 = 1
        THEN log[i][1] = "start"
        ELSE log[i][1] \in {"end", "raise"} /\ log[i][2] = log[i-1][2]

\* C13 (as claimed): delivery order. No two handlers of one publish overlap,
\* and when publish returns every handler subscribed to the event type,
\* coroutine handlers included, has run to completion exactly once, in the
\* order of registration.
CexC13_DeliveryOrder ==
    /\ Sequential(ev_log)
    /\ (ev_ret = "returned") =>
          /\ Len(ev_log) = 2 * Len(reg_order[ev_type])
          /\ \A i \in 1..Len(reg_order[ev_type]) :
                 ev_log[2 * i - 1] = <<"start", reg_order[ev_type][i]>>

\* C14 (as claimed): handler failure isolation. When publish returns from a
\* delivery in which handlers raised, every subscribed handler was invoked
\* and handler_errors grew by the number of handlers that failed.
CexC14_FailureIsolation ==
    LET failed == {i \in 1..Len(ev_log) : ev_log[i][1] = "raise"}
    IN  (ev_ret = "returned" /\ failed # {}) =>
            /\ \A h \in Elems(reg_order[ev_type]) :
                   \E i \in 1..Len(ev_log) : ev_log[i] = <<"start", h>>
            /\ stats.handler_errors - stats_before.handler_errors
                   = Cardinality(failed)

\* C15 (as claimed): subscriber cap. subscribe returns True while the event
\* type has fewer than MAX_SUBSCRIBERS handlers and False, changing nothing,
\* once the cap is reached; no event type has more than MAX_SUBSCRIBERS
\* handlers.
CexC15_SubscriberCap ==
    /\ \A t \in EventTypes : Len(reg_order[t]) <= MAX_SUBSCRIBERS
    /\ (sub_ret # "nocall") =>
          \/ sub_ret = "True"
          \/ /\ sub_ret = "False"
             /\ \E t \in EventTypes : Len(reg_order[t]) >= MAX_SUBSCRIBERS

\* C16 (as claimed): a publish of an event type without subscribers returns
\* without raising, adds one to events_dropped and records the event in the
\* history.
CexC16_ZeroSubscribersDropped ==
    (ev_ret = "returned" /\ Entries(ev_type) = 0) =>
        /\ stats.events_dropped = stats_before.events_dropped + 1
        /\ history # <<>>
        /\ history[Len(history)] = ev_type

\* ====================================================== timed heat claims

\* C17 (no retroactive heating): when initialize() runs while the persisted
\* timer has end_time <= now, then afterwards the timer file is deleted, no
\* poll task is running, heater_mode is not heat and the relay is not
\* activated.
CexC17_NoRetroactiveHeating ==
    [][ (~up /\ up' /\ timer_json # None /\ val(timer_json) <= now) =>
          /\ timer_json' = None
          /\ tasks' = {}
          /\ heater_mode' # "heat"
          /\ ~relay_active' ]_vars

\* a step in which a _check_timer task publishes thermostat_timer_end
TimerEndPublished ==
    /\ Len(published') = Len(published) + 1
    /\ published'[Len(published')][1] = "thermostat_timer_end"

\* C18 (timer resume): when initialize() runs while the persisted timer has
\* end_time > now, the restarted controller keeps that end_time with a poll
\* task running, and the timer-end event is published in the tick of that
\* deadline, not a full duration after the restart.
CexC18_TimerResume ==
    [][ /\ (~up /\ up' /\ timer_json # None /\ val(timer_json) > now) =>
              /\ timer_end_time' = timer_json
              /\ tasks' # {}
        /\ TimerEndPublished => now = val(timer_end_time) ]_vars

\* C19 (timer expiry): start_timed_heat persists end_time = now + duration,
\* publishes the enable event and starts a poll task; a timer-end event is
\* published only once the clock has reached end_time, by a poll task that
\* deletes the timer file and terminates; and no poll task of a running
\* process is left behind by the clock.
ThmC19_TimerExpiry ==
    [][ /\ (up /\ up' /\ n_tasks' = n_tasks + 1) =>
              /\ timer_json' = timer_end_time'
              /\ val(timer_end_time') > now
              /\ published'[Len(published')] =
                     <<"thermostat_timer_start", now, 0>>
              /\ n_tasks' \in tasks'
        /\ TimerEndPublished =>
              /\ now >= val(timer_end_time)
              /\ timer_json' = None
              /\ published'[Len(published')][3] \in tasks \ tasks'
        /\ (up /\ tasks # {} /\ now' > now) => now < val(timer_end_time)
      ]_vars

WitC19_Expired ==
    /\ up /\ n_tasks = 1 /\ tasks = {} /\ timer_json = None
    /\ Len(published) = 2
    /\ published[1] = <<"thermostat_timer_start", 0, 0>>
    /\ published[2] = <<"thermostat_timer_end", 3, 1>>
    /\ now = 3

\* the timer-end events published since the latest thermostat_timer_start
RECURSIVE ends_since_start(_)
ends_since_start(log) ==
    IF log = <<>> \/ log[Len(log)][1] = "thermostat_timer_start"
    THEN 0
    ELSE 1 + ends_since_start(SubSeq(log, 1, Len(log) - 1))

\* C20 (superseded timers): after a second start_timed_heat the poll task of
\* the earlier start never publishes a timer-end event: a timer-end event
\* comes from the task created last, and one start is followed by at most
\* one timer-end event.
CexC20_SupersededTimers ==
    [][ TimerEndPublished =>
          /\ published'[Len(published')][3] = n_tasks
          /\ ends_since_start(published') <= 1 ]_vars

\* ======================================================= settings claims

\* the in-memory settings of the ThermostatController
th_settings ==
    <<setpoint, cycle_delay, min_run_time, temp_differential, heater_mode>>

\* a step in which a temp_setting_changed event was handled
SettingStep == up /\ up' /\ last_change' # <<>>

\* C21 (validation error): a temp_setting_changed event with a value out of
\* range leaves the controller's in-memory settings, the configuration and
\* the persisted files as they were.
CexC21_InvalidRejected ==
    [][ (SettingStep
           /\ ~validate_temp_setting(last_change'[1], last_change'[2])) =>
          /\ th_settings' = th_settings
          /\ cfg' = cfg
          /\ sfiles' = sfiles ]_vars

\* C22 (every valid change is persisted): after a temp_setting_changed
\* event with a valid value the setting's own file holds that value and a
\* timestamp.
CexC22_ValidPersisted ==
    [][ (SettingStep
           /\ validate_temp_setting(last_change'[1], last_change'[2])) =>
          sfiles'[last_change'[1]] = saved(last_change'[2], now) ]_vars

\* the setting's file holds a saved value that is in range
Intact(setting) ==
    /\ sfiles[setting] # <<>>
    /\ sfiles[setting][1] = "ok"
    /\ validate_temp_setting(setting, sfiles[setting][2])

\* C23 (independent restore): whatever subset of the five setting files is
\* missing, empty, corrupt, malformed or out of range, restore_all_settings
\* publishes a temp_setting_changed event for exactly the other files, in
\* its order, each carrying the stored value.
ThmC23_IndependentRestore ==
    [][ (~up /\ up') =>
          LET q == SelectSeq(RestoreOrder, Intact)
          IN  restored' = [i \in 1..Len(q) |-> <<q[i], sfiles[q[i]][2]>>]
      ]_vars

WitC23_PartialRestore ==
    /\ up
    /\ sfiles["SETPOINT"] = <<"corrupt">>
    /\ sfiles["MIN_RUN_TIME"] = <<>>
    /\ sfiles["TEMP_DIFFERENTIAL"] = saved(0, 0)
    /\ restored = <<<<"CYCLE_DELAY", 1>>, <<"HEATER_MODE", "heat">>>>

\* the controller's in-memory field of a setting
th_field(setting) ==
    CASE setting = "SETPOINT"          -> setpoint
      [] setting = "CYCLE_DELAY"       -> cycle_delay
      [] setting = "MIN_RUN_TIME"      -> min_run_time
      [] setting = "TEMP_DIFFERENTIAL" -> temp_differential
      [] setting = "HEATER_MODE"       -> heater_mode

\* C24 (settings survive restart): if a temp_setting_changed event with a
\* valid value v was the last change of a setting before a restart, then
\* after the next start there is a controller whose in-memory field of that
\* setting equals v.
CexC24_SurviveRestart ==
    [][ (~up /\ up') =>
          \A s \in Settings :
              last_valid[s] # <<>> =>
                  /\ th_up'
                  /\ th_field(s)' = last_valid[s][1] ]_vars

\* ==================================================== persistence claims

\* C3 (as claimed): at every instant, load_state of the settings file and
\* of the timer file gives the complete value from before the last save or
\* the complete value being saved, so that a restart after an interruption
\* never finds a partial or empty file.
CexC3_CrashAtomic ==
    /\ load_state(files[SettingFile]) \in {s_prior, s_new}
    /\ cb_load_state(files[TimerFile]) \in {t_prior, t_new}

\* C4: a failing save_state is clean. Whichever step of
\* file_logger.save_state fails (opening or writing the temporary file, the
\* read-back, the comparison, the rename), the call returns False and the
\* target file holds the content it held when the call began; the target
\* does not change before the rename either.
ThmC4_FailedSaveClean ==
    /\ (fl_failed_at # "none" /\ fl_pc = "idle" /\ fl_ret # "none")
           => (fl_ret = "False" /\ files[SettingFile] = fl_before)
    /\ (fl_ret = "False") => (files[SettingFile] = fl_before)
    /\ (fl_pc # "idle") => (files[SettingFile] = fl_before)

\* C4 witness: a settings file existed, a save of another value passed the
\* verification and failed in the rename.
WitC4_RenameFailed ==
    /\ fl_failed_at = "rename"
    /\ fl_ret = "False"
    /\ fl_before \in {"v1", "v2"}
    /\ fl_data \in {"v1", "v2"}
    /\ fl_data # fl_before
    /\ files[SettingFile] = fl_before

\* C25 (round trip): once save_state(x, f) has returned True, load_state(f)
\* gives a value equal to x and no temporary file is left.
CexC25_RoundTrip ==
    /\ (fl_ret = "True") =>
           /\ load_state(files[SettingFile]) = fl_data
           /\ files[temp_name(SettingFile)] = ABSENT
    /\ (cb_ret = "True") => cb_load_state(files[TimerFile]) = cb_data

\* ============================================ control loop claims

\* C31: graceful degradation on sensor failure. When the temperature
\* sensor read has failed while the relay is active, an evaluation that
\* runs once the minimum run time is satisfied (with all four numeric
\* settings nonzero) deactivates the relay, and an error event has been
\* published for the failed read.
CexC31_SensorFailureDegrades ==
    [][(/\ sensor_failed /\ sensor_failed'
        /\ relay_active
        /\ all_settings(ThState)
        /\ now - last_on_time >= min_run_time
        /\ outcome' # "none") =>
           /\ ~relay_active'
           /\ error_events' # {} ]_vars

CexC33_SynchronousSettings ==
    [][(Len(history') > Len(history)) =>
         /\ \A st \in Settings :
               (last_published'[1] = st) =>
                   (th_field(st)' = last_published'[2])
         /\ outcome' # "none"
         /\ (op_ret' = "True") => (heater_mode' = "heat")
         /\ (op_ret' = "None") => (heater_mode' # "heat") ]_vars

\* C34: bounded initialization retries. A call of initialize_system makes
\* at most RETRY_ATTEMPTS attempts and returns: True with state READY when
\* an attempt succeeded, False with state ERROR otherwise, which for the
\* first call is after exactly RETRY_ATTEMPTS failed attempts; once it has
\* returned, nothing is attempted or changed until it is called again.
ThmC34_BoundedInitRetries ==
    /\ [](/\ call_attempts <= RETRY_ATTEMPTS
          /\ (init_ret = "True") =>
                 (iot_state = READY /\ init_pc = "returned")
          /\ (init_ret = "False") =>
                 /\ iot_state = ERROR /\ init_pc = "returned"
                 /\ initialization_retry >= RETRY_ATTEMPTS
                 /\ (n_calls = 1) =>
                        /\ call_attempts = RETRY_ATTEMPTS
                        /\ Len(error_log) = RETRY_ATTEMPTS)
    /\ [][(init_pc = "returned" /\ n_calls' = n_calls) =>
             UNCHANGED <<iot_state, initialization_retry, error_log,
                         call_attempts, init_ret>>]_vars
    /\ ((init_pc = "attempt") ~> (init_pc = "returned"))

\* C34 witness: the first call failed three times, the second time after
\* state = READY had been set, and returned False with state ERROR.
WitC34_ThreeFailures ==
    /\ n_calls = 1
    /\ init_ret = "False"
    /\ iot_state = ERROR
    /\ call_attempts = 3
    /\ error_log = <<"hardware", "publish", "communication">>

\* C35: shutdown forces the heater off. Once the system's safe shutdown
\* has completed, from any thermostat state, the heater relay is inactive,
\* and it stays inactive in every later state.
CexC35_ShutdownForcesOff ==
    (system_state = SHUTDOWN) => ~relay_active

\* C36: deferred Disabled. The FSM state is never Disabled while the relay
\* is active and now - last_on_time < min_run_time, and handling a
\* HEATER_MODE=off setting change in that situation leaves the FSM in
\* MinRun.
CexC36_DeferredDisabled ==
    /\ [](~(/\ fsm_state = STATE_DISABLED
            /\ relay_active
            /\ now - last_on_time < min_run_time))
    /\ [][(/\ relay_active
           /\ now - last_on_time < min_run_time
           /\ heater_mode = "heat" /\ heater_mode' = "off") =>
              (fsm_state' = STATE_MIN_RUN)]_vars

\* C37: the FSM follows the relay on activation. After every evaluation
\* that activates the relay, whatever the FSM state was before (Idle,
\* CycleDelay or Disabled), the FSM state is Heating.
CexC37_HeatingOnActivation ==
    [][(outcome' = "on" /\ ~relay_active /\ relay_active') =>
           (fsm_state' = STATE_HEATING)]_vars

ThmC39_HeaterEventsAlternate ==
    /\ [][(last_heater_event' = HEATER_ACTIVATED
            /\ (outcome' = "on" \/ last_heater_event # HEATER_ACTIVATED)) =>
              /\ last_heater_event \in {"none", HEATER_DEACTIVATED}
              /\ ~relay_active /\ relay_active']_vars
    /\ [][(last_heater_event' = HEATER_DEACTIVATED
            /\ (outcome' = "off" \/ last_heater_event # HEATER_DEACTIVATED)) =>
              /\ last_heater_event = HEATER_ACTIVATED
              /\ relay_active /\ ~relay_active']_vars
    /\ [][(outcome' \in {"on", "off"}) =>
             (last_heater_event' =
                 IF outcome' = "on" THEN HEATER_ACTIVATED
                 ELSE HEATER_DEACTIVATED)]_vars
    /\ [](relay_active <=> (last_heater_event = HEATER_ACTIVATED))

\* C39 witness: an evaluation that activated the relay is suspended in its
\* publish; meanwhile another task's evaluation has deactivated the relay
\* and published heater_deactivated.
WitC39_OffWhileSuspended ==
    /\ \E t \in EvalTasks : pending[t] = STATE_HEATING
    /\ last_heater_event = HEATER_DEACTIVATED
    /\ ~relay_active

\* C40: exactly-once delivery. Whatever subscribe calls (the same handler
\* repeatedly, priority=True, is_async=True) and unsubscribe calls came
\* before, when a publish has returned no handler subscribed to the event
\* type at that time was invoked by it more than once, every subscribed
\* plain function was invoked exactly once, and no handler that is not
\* subscribed was invoked. (That a subscribed coroutine function may not
\* be invoked at all is the subject of C13.)
CexC40_ExactlyOnceDelivery ==
    LET invocations(h) ==
            Cardinality({i \in 1..Len(ev_log) : ev_log[i] = <<"start", h>>})
    IN  (ev_ret = "returned") =>
            /\ \A h \in Elems(reg_order[ev_type]) :
                   /\ invocations(h) <= 1
                   /\ ~iscoroutinefunction(h) => (invocations(h) = 1)
            /\ \A i \in 1..Len(ev_log) :
                   ev_log[i][2] \in Elems(reg_order[ev_type])

====
